---- MODULE Spec2Model ----
(***************************************************************************)
(* A model of the archivo-venezuela-app metadata pipeline: the OCLC token  *)
(* cache and the batch loops (utils/fetch_helpers.py, the oEmbed tabs of   *)
(* pages/4_Metadata_Aggregator.py), the batch store (save_outputs), the    *)
(* translator (utils/translation.py), the Dublin Core mapper and its       *)
(* Generate button (pages/5_DublinCore_Mapper.py), the WorldCat tab of the *)
(* aggregator page and the Omeka poller                                    *)
(* (automation/omeka_metadata_poller.py).                                  *)
(*                                                                         *)
(* Python strings are sequences of one-character strings, so that strip()  *)
(* and lower() are computed and not assumed.  None is the string "None".   *)
(***************************************************************************)
EXTENDS Integers, Sequences, FiniteSets, TLC

VARIABLES
    now,            \* time.time(), in whole seconds
    _token_cache,   \* fetch_helpers._token_cache: [token, expires_at]
    tokcall,        \* the step a fetch_oclc_token call has just made, if any
    frames,         \* the fetch_oclc_token calls under way, per caller
    op,             \* the batch loop in progress (CSV, YouTube, Spotify)
    raw_file,       \* data/raw_metadata.json
    log_file,       \* data/source_log.csv
    inv,            \* the save_outputs invocations: position and locals
    hist,           \* what save_outputs was asked to store, in call order
    tr,             \* the last translate_text call of utils/translation.py
    mp,             \* the last map_to_dublin_core call of the mapper page
    call,           \* a call of a function or of a page handler: its
                    \* arguments, and its outcome once it has run
    poll            \* the poll_items call in progress: position and locals

vars ==
    <<now, _token_cache, tokcall, frames, op, raw_file, log_file, inv, hist,
      tr, mp, call, poll>>

None == "None"

\* no call is under way
NoCall == [fn |-> "none", done |-> FALSE]

\* poll_items is not running
IdlePoll == [pc |-> "idle"]

\* every variable but poll
PollRest ==
    <<now, _token_cache, tokcall, frames, op, raw_file, log_file, inv, hist,
      tr, mp, call>>

(***************************************************************************)
(* Bounds of the model.                                                    *)
(***************************************************************************)
MaxTime == 2        \* the clock stops advancing here
MaxRows == 2        \* rows of a CSV / lines of a URL text area
MaxSaves == 3       \* save_outputs invocations in one behaviour

(***************************************************************************)
(* Python string operations.                                               *)
(***************************************************************************)
Space == " "

UpperChars == <<"A","B","C","D","E","F","G","H","I","J","K","L","M",
                "N","O","P","Q","R","S","T","U","V","W","X","Y","Z">>

LowerChars == <<"a","b","c","d","e","f","g","h","i","j","k","l","m",
                "n","o","p","q","r","s","t","u","v","w","x","y","z">>

\* str.lower() on one character
LowerChar(c) ==
    IF \E i \in 1..Len(UpperChars) : UpperChars[i] = c
    THEN LowerChars[CHOOSE i \in 1..Len(UpperChars) : UpperChars[i] = c]
    ELSE c

\* str.lower()
Lower(s) == [i \in 1..Len(s) |-> LowerChar(s[i])]

RECURSIVE LStrip(_)
LStrip(s) == IF s # <<>> /\ Head(s) = Space THEN LStrip(Tail(s)) ELSE s

RECURSIVE RStrip(_)
RStrip(s) ==
    IF s # <<>> /\ s[Len(s)] = Space THEN RStrip(SubSeq(s, 1, Len(s) - 1)) ELSE s

\* str.strip(), the space standing for every whitespace character
Strip(s) == RStrip(LStrip(s))

\* bool(x) of a string or a list
Truthy(x) == x # <<>>

\* a or b
PyOr(a, b) == IF Truthy(a) THEN a ELSE b

(***************************************************************************)
(* utils/fetch_helpers.py: the token cache.                                *)
(***************************************************************************)
SafetyMargin == 10

DefaultExpiresIn == 3600

AccessTokens == {"tokA", "tokB"}

\* expires_in of a token response: <<n>>, or <<>> when the field is absent
ExpiresIn == {<<1>>, <<11>>, <<>>}

\* data.get("expires_in", 3600)
GetExpiresIn(resp) ==
    IF resp.expires_in = <<>> THEN DefaultExpiresIn ELSE resp.expires_in[1]

\* what the OAuth endpoint may answer to requests.post
ExchangeResponses ==
    [status : {200}, access_token : AccessTokens, expires_in : ExpiresIn]
    \cup [status : {401}, access_token : {None}, expires_in : {<<>>}]

EmptyCache == [token |-> None, expires_at |-> 0]

NoResp == [status |-> 0, access_token |-> None, expires_in |-> <<>>]

\* a mutant of CacheHit: no safety margin in the cache test
CacheHit_NoMargin(cache, t) == cache.token # None /\ cache.expires_at > t

\* _token_cache["token"] and _token_cache["expires_at"] > now + 10
CacheHit(cache, t) ==
    cache.token # None /\ cache.expires_at > t + SafetyMargin

\* The locals of a fetch_oclc_token call under way: pc is the statement it
\* has reached, at the clock it read, hit the outcome of its test, resp the
\* answer of the endpoint, wrote the assignments it made to the slot; alone
\* tells that no other call wrote the slot since the test.
NoFrame ==
    [pc |-> "idle", at |-> 0, hit |-> FALSE, resp |-> NoResp,
     wrote |-> <<>>, alone |-> TRUE]

\* now = time.time()
ClockRead(t) == [NoFrame EXCEPT !.pc = "clock", !.at = t]

\* the test of the cache: the call goes to its return or to requests.post
Tested(f, cache) ==
    [f EXCEPT !.pc = IF CacheHit(cache, f.at) THEN "hit" ELSE "post",
              !.hit = CacheHit(cache, f.at)]

\* a mutant of Answered: a failed exchange drops the cached token
Answered_ClearOnError(f, cache, resp) ==
    IF resp.status = 200
    THEN [cache |-> [cache EXCEPT !.token = resp.access_token],
          frame |-> [f EXCEPT !.pc = "token_written", !.resp = resp,
                              !.wrote = Append(@, <<"token",
                                                    resp.access_token>>)]]
    ELSE [cache |-> EmptyCache,
          frame |-> [f EXCEPT !.pc = "raised", !.resp = resp]]

\* requests.post returns resp: on 200 the token is assigned to the slot,
\* otherwise the call raises
Answered(f, cache, resp) ==
    IF resp.status = 200
    THEN [cache |-> [cache EXCEPT !.token = resp.access_token],
          frame |-> [f EXCEPT !.pc = "token_written", !.resp = resp,
                              !.wrote = Append(@, <<"token",
                                                    resp.access_token>>)]]
    ELSE [cache |-> cache,
          frame |-> [f EXCEPT !.pc = "raised", !.resp = resp]]

\* _token_cache["expires_at"] = now + data.get("expires_in", 3600), now
\* being the clock read when the call began
ExpiresWritten(f, cache) ==
    LET expires_at == f.at + GetExpiresIn(f.resp)
    IN [cache |-> [cache EXCEPT !.expires_at = expires_at],
        frame |-> [f EXCEPT !.pc = "expires_written",
                            !.wrote = Append(@, <<"expires_at",
                                                  expires_at>>)]]

\* fetch_oclc_token() running from its first statement to its last with no
\* other call in between, at time t, the endpoint answering resp if asked:
\* the cache after the call, the number of exchange calls made, whether the
\* call raised, and the value returned
fetch_oclc_token(cache, t, resp) ==
    LET f == Tested(ClockRead(t), cache)
        a == Answered(f, cache, resp)
        w == ExpiresWritten(a.frame, a.cache)
    IN IF f.pc = "hit"
       THEN [cache |-> cache, exchange_calls |-> 0, raised |-> FALSE,
             value |-> cache.token]
       ELSE IF a.frame.pc = "raised"
       THEN [cache |-> a.cache, exchange_calls |-> 1, raised |-> TRUE,
             value |-> None]
       ELSE [cache |-> w.cache, exchange_calls |-> 1, raised |-> FALSE,
             value |-> w.cache.token]

\* the record kept of the step a fetch_oclc_token call just made, its test
\* ("test") or its last ("return", "raise"): f is its frame, pre and post
\* the slot before and after the step
TokCall(caller, step, f, pre, post, exchange_calls, value) ==
    [caller |-> caller, step |-> step, at |-> f.at, hit |-> f.hit,
     resp |-> f.resp, wrote |-> f.wrote, alone |-> f.alone,
     pre |-> pre, post |-> post, exchange_calls |-> exchange_calls,
     raised |-> step = "raise", value |-> value]

NoTokCall ==
    [caller |-> "none", step |-> "none", at |-> 0, hit |-> FALSE,
     resp |-> NoResp, wrote |-> <<>>, alone |-> TRUE, pre |-> EmptyCache,
     post |-> EmptyCache, exchange_calls |-> 0, raised |-> FALSE,
     value |-> None]

\* the sessions that call fetch_oclc_token: the WorldCat tab of one, the CSV
\* function of another; each runs in a thread of its own and _token_cache
\* is the one dictionary of the module
Callers == {"page", "csv"}

NoFrames == [c \in Callers |-> NoFrame]

(***************************************************************************)
(* utils/translation.py: translate_text.                                   *)
(***************************************************************************)
\* the entries of _MANUAL_MAP, <<key, value>>
ManualPairs ==
    {
      <<<<"S","h","o","r","t"," ","s","t","o","r","i","e","s">>,
        <<"C","u","e","n","t","o","s"," ","c","o","r","t","o","s">>>>,
      <<<<"F","i","c","t","i","o","n">>,
        <<"F","i","c","c","i","ó","n">>>>,
      <<<<"N","o","v","e","l","s">>,
        <<"N","o","v","e","l","a","s">>>>,
      <<<<"P","o","l","i","t","i","c","s">>,
        <<"P","o","l","í","t","i","c","a">>>>,
      <<<<"R","e","f","u","g","e","e","s">>,
        <<"R","e","f","u","g","i","a","d","o","s">>>>,
      <<<<"V","e","n","e","z","u","e","l","a">>,
        <<"V","e","n","e","z","u","e","l","a">>>>,
      <<<<"P","o","e","t","r","y">>,
        <<"P","o","e","s","í","a">>>>,
      <<<<"H","i","s","t","o","r","y">>,
        <<"H","i","s","t","o","r","i","a">>>>,
      <<<<"M","i","g","r","a","t","i","o","n">>,
        <<"M","i","g","r","a","c","i","ó","n">>>>,
      <<<<"B","o","o","k">>,
        <<"L","i","b","r","o">>>>,
      <<<<"L","i","t","e","r","a","t","u","r","e">>,
        <<"L","i","t","e","r","a","t","u","r","a">>>>,
      <<<<"C","u","l","t","u","r","e">>,
        <<"C","u","l","t","u","r","a">>>>
    }

_MANUAL_MAP ==
    [k \in {p[1] : p \in ManualPairs} |->
        (CHOOSE p \in ManualPairs : p[1] = k)[2]]

\* what translator.translate may do: raise (ok = FALSE), or return a result
\* whose text is given
ProviderFailure == [ok |-> FALSE, text |-> <<>>]

ProviderResult(t) == [ok |-> TRUE, text |-> t]

\* a mutant of translate_text: the provider is asked before the manual map
translate_text_ProviderFirst(text, r1, r2) ==
    IF ~Truthy(text) \/ Strip(text) = <<>>
    THEN [value |-> <<>>, calls |-> <<>>, raised |-> FALSE]
    ELSE LET t == Strip(text) IN
         IF r1.ok /\ Lower(Strip(r1.text)) # Lower(t)
         THEN [value |-> Strip(r1.text), calls |-> <<t>>, raised |-> FALSE]
         ELSE IF t \in DOMAIN _MANUAL_MAP
         THEN [value |-> _MANUAL_MAP[t], calls |-> <<t>>, raised |-> FALSE]
         ELSE [value |-> t, calls |-> <<t>>, raised |-> FALSE]

\* a mutant of translate_text: no except clause around the provider calls
translate_text_NoExcept(text, r1, r2) ==
    IF ~Truthy(text) \/ Strip(text) = <<>>
    THEN [value |-> <<>>, calls |-> <<>>, raised |-> FALSE]
    ELSE LET t == Strip(text) IN
         IF t \in DOMAIN _MANUAL_MAP
         THEN [value |-> _MANUAL_MAP[t], calls |-> <<>>, raised |-> FALSE]
         ELSE IF ~r1.ok
         THEN [value |-> <<>>, calls |-> <<t>>, raised |-> TRUE]
         ELSE LET translated == Strip(r1.text) IN
              IF Lower(translated) = Lower(t)
              THEN IF ~r2.ok
                   THEN [value |-> <<>>, calls |-> <<t, Lower(t)>>,
                         raised |-> TRUE]
                   ELSE LET translated2 == Strip(r2.text) IN
                        IF Lower(translated2) # Lower(t)
                        THEN [value |-> translated2,
                              calls |-> <<t, Lower(t)>>, raised |-> FALSE]
                        ELSE [value |-> translated,
                              calls |-> <<t, Lower(t)>>, raised |-> FALSE]
              ELSE [value |-> translated, calls |-> <<t>>, raised |-> FALSE]

\* a mutant of translate_text: the retry is made with the text as it is
translate_text_RetryAsIs(text, r1, r2) ==
    IF ~Truthy(text) \/ Strip(text) = <<>>
    THEN [value |-> <<>>, calls |-> <<>>, raised |-> FALSE]
    ELSE LET t == Strip(text) IN
         IF t \in DOMAIN _MANUAL_MAP
         THEN [value |-> _MANUAL_MAP[t], calls |-> <<>>, raised |-> FALSE]
         ELSE IF ~r1.ok
         THEN [value |-> t, calls |-> <<t>>, raised |-> FALSE]
         ELSE LET translated == Strip(r1.text) IN
              IF Lower(translated) = Lower(t)
              THEN IF ~r2.ok
                   THEN [value |-> t, calls |-> <<t, t>>,
                         raised |-> FALSE]
                   ELSE LET translated2 == Strip(r2.text) IN
                        IF Lower(translated2) # Lower(t)
                        THEN [value |-> translated2,
                              calls |-> <<t, t>>, raised |-> FALSE]
                        ELSE [value |-> translated,
                              calls |-> <<t, t>>, raised |-> FALSE]
              ELSE [value |-> translated, calls |-> <<t>>, raised |-> FALSE]

\* translate_text(text), the provider answering r1 to the first call and r2
\* to the retry call if they are made: the value returned, the texts the
\* provider was called with, and whether the call raised
translate_text(text, r1, r2) ==
    IF ~Truthy(text) \/ Strip(text) = <<>>
    THEN [value |-> <<>>, calls |-> <<>>, raised |-> FALSE]
    ELSE LET t == Strip(text) IN
         IF t \in DOMAIN _MANUAL_MAP
         THEN [value |-> _MANUAL_MAP[t], calls |-> <<>>, raised |-> FALSE]
         ELSE IF ~r1.ok
         THEN [value |-> t, calls |-> <<t>>, raised |-> FALSE]
         ELSE LET translated == Strip(r1.text) IN
              IF Lower(translated) = Lower(t)
              THEN IF ~r2.ok
                   THEN [value |-> t, calls |-> <<t, Lower(t)>>,
                         raised |-> FALSE]
                   ELSE LET translated2 == Strip(r2.text) IN
                        IF Lower(translated2) # Lower(t)
                        THEN [value |-> translated2,
                              calls |-> <<t, Lower(t)>>, raised |-> FALSE]
                        ELSE [value |-> translated,
                              calls |-> <<t, Lower(t)>>, raised |-> FALSE]
              ELSE [value |-> translated, calls |-> <<t>>, raised |-> FALSE]

(***************************************************************************)
(* pages/5_DublinCore_Mapper.py: the mapper and its own translate_text.    *)
(***************************************************************************)
\* d.get(k, default) of a dict, a function from its keys
Get(d, k, default) == IF k \in DOMAIN d THEN d[k] ELSE default

\* sep.join(parts)
RECURSIVE Join(_, _)
Join(parts, sep) ==
    IF parts = <<>> THEN <<>>
    ELSE IF Len(parts) = 1 THEN parts[1]
    ELSE parts[1] \o sep \o Join(Tail(parts), sep)

\* translate_text(text) of the mapper page (not the one of
\* utils/translation.py), the provider answering r if it is called
mapper_translate_text(text, r) ==
    IF ~Truthy(text)
    THEN [value |-> <<>>, calls |-> <<>>]
    ELSE IF r.ok
    THEN [value |-> r.text, calls |-> <<text>>]
    ELSE [value |-> text, calls |-> <<text>>]

\* the field names validate_record requires, in its order
required == <<"Title (EN)", "Creator (EN)", "Description (EN)", "Date">>

\* the characters of a required field's name
FieldChars ==
    [n \in {required[i] : i \in 1..Len(required)} |->
        CASE n = "Title (EN)" -> <<"T","i","t","l","e"," ","(","E","N",")">>
          [] n = "Creator (EN)" ->
                <<"C","r","e","a","t","o","r"," ","(","E","N",")">>
          [] n = "Description (EN)" ->
                <<"D","e","s","c","r","i","p","t","i","o","n"," ","(","E","N",")">>
          [] n = "Date" -> <<"D","a","t","e">>]

\* a mutant of validate_record: the values are not trimmed
validate_record_NoStrip(dc_row) ==
    SelectSeq(required, LAMBDA r : ~Truthy(Get(dc_row, r, <<>>)))

\* validate_record(dc_row): the required fields empty after trimming
validate_record(dc_row) ==
    SelectSeq(required, LAMBDA r : ~Truthy(Strip(Get(dc_row, r, <<>>))))

\* map_to_dublin_core(item), the provider answering rt, rc and rd to the
\* calls for the title, the creator and the description
map_to_dublin_core(item, rt, rc, rd) ==
    LET title == PyOr(Get(item, "title", <<>>), Get(item, "Title", <<>>))
        creator == PyOr(Get(item, "creator", <<>>), Get(item, "Creator", <<>>))
        desc == PyOr(Get(item, "description", <<>>),
                     Get(item, "Description", <<>>))
        date == PyOr(Get(item, "date", <<>>), Get(item, "Date", <<>>))
        tags == Get(item, "tags", <<>>)
        img == Get(item, "media_urls", <<>>)
        dc == [k \in {"Source", "Identifier", "Title (EN)", "Title (ES)",
                      "Creator (EN)", "Creator (ES)", "Description (EN)",
                      "Description (ES)", "Date", "Tags", "Media URL"} |->
                CASE k = "Source" -> Get(item, "source", <<>>)
                  [] k = "Identifier" -> Get(item, "id", <<>>)
                  [] k = "Title (EN)" -> title
                  [] k = "Title (ES)" -> mapper_translate_text(title, rt).value
                  [] k = "Creator (EN)" -> creator
                  [] k = "Creator (ES)" ->
                        mapper_translate_text(creator, rc).value
                  [] k = "Description (EN)" -> desc
                  [] k = "Description (ES)" ->
                        mapper_translate_text(desc, rd).value
                  [] k = "Date" -> date
                  [] k = "Tags" -> Join(tags, <<";", " ">>)
                  [] k = "Media URL" -> IF img # <<>> THEN img[1] ELSE <<>>]
    IN [k \in DOMAIN dc \cup {"Missing Fields"} |->
            IF k = "Missing Fields"
            THEN Join([i \in 1..Len(validate_record(dc)) |->
                          FieldChars[validate_record(dc)[i]]], <<",", " ">>)
            ELSE dc[k]]

\* the provider calls map_to_dublin_core makes, in order
MapperCalls(item, rt, rc, rd) ==
    LET title == PyOr(Get(item, "title", <<>>), Get(item, "Title", <<>>))
        creator == PyOr(Get(item, "creator", <<>>), Get(item, "Creator", <<>>))
        desc == PyOr(Get(item, "description", <<>>),
                     Get(item, "Description", <<>>))
    IN mapper_translate_text(title, rt).calls
       \o mapper_translate_text(creator, rc).calls
       \o mapper_translate_text(desc, rd).calls

(***************************************************************************)
(* pages/4_Metadata_Aggregator.py: clean_text.                             *)
(***************************************************************************)
\* the index of the first ">" of s, 0 when there is none
RECURSIVE FirstGt(_, _)
FirstGt(s, i) ==
    IF i > Len(s) THEN 0 ELSE IF s[i] = ">" THEN i ELSE FirstGt(s, i + 1)

\* re.sub(r"<[^>]+>", "", s)
RECURSIVE RemoveTags(_)
RemoveTags(s) ==
    IF s = <<>> THEN <<>>
    ELSE IF s[1] = "<" /\ FirstGt(s, 2) > 2
    THEN RemoveTags(SubSeq(s, FirstGt(s, 2) + 1, Len(s)))
    ELSE <<s[1]>> \o RemoveTags(Tail(s))

\* the character references html.unescape is modelled on: <<reference, char>>
Entities ==
    { << <<"&","a","m","p",";">>, "&" >>,
      << <<"&","l","t",";">>, "<" >>,
      << <<"&","g","t",";">>, ">" >> }

StartsWith(s, pre) == Len(s) >= Len(pre) /\ SubSeq(s, 1, Len(pre)) = pre

\* html.unescape(s), for the references of Entities
RECURSIVE Unescape(_)
Unescape(s) ==
    IF s = <<>> THEN <<>>
    ELSE IF \E e \in Entities : StartsWith(s, e[1])
    THEN LET e == CHOOSE e \in Entities : StartsWith(s, e[1])
         IN <<e[2]>> \o Unescape(SubSeq(s, Len(e[1]) + 1, Len(s)))
    ELSE <<s[1]>> \o Unescape(Tail(s))

\* clean_text(x); a missing value (None) is <<>>
clean_text(x) ==
    IF ~Truthy(x) THEN <<>> ELSE Strip(Unescape(RemoveTags(x)))

(***************************************************************************)
(* The translation provider as a stub: one behaviour for a whole record.   *)
(***************************************************************************)
Providers == {"down", "echo", "es", "lowonly", "blank"}

Translated(t) == <<"e", "s", ":">> \o t

\* what the stub p answers when asked to translate t
Answer(p, t) ==
    CASE p = "down" -> ProviderFailure
      [] p = "echo" -> ProviderResult(t)
      [] p = "es" -> ProviderResult(Translated(t))
      [] p = "lowonly" ->
            IF t = Lower(t) THEN ProviderResult(Translated(t))
            ELSE ProviderResult(t)
      [] p = "blank" -> ProviderResult(<<" ">>)

\* translate_text(text) against the stub p
StubTranslate(p, text) ==
    translate_text(text, Answer(p, Strip(text)),
                   Answer(p, Lower(Strip(text)))).value

(***************************************************************************)
(* utils/fetch_helpers.py: fetch_worldcat_data and clean_worldcat_data.    *)
(* A JSON value carries its type: a string (a sequence of characters), an  *)
(* object (a function from its keys), an array (a sequence of values), a   *)
(* number or null.                                                         *)
(***************************************************************************)
JStr(s) == [t |-> "str", v |-> s]

JObj(f) == [t |-> "obj", v |-> f]

JArr(q) == [t |-> "arr", v |-> q]

\* a non-zero number, v being what str() makes of it
JNum == [t |-> "num", v |-> <<"5">>]

JNull == [t |-> "null", v |-> <<>>]

\* the object without keys
NoKeys == [k \in {} |-> JNull]

\* bool(x) of a JSON value
JTruthy(x) ==
    CASE x.t = "str" -> Len(x.v) > 0
      [] x.t = "arr" -> Len(x.v) > 0
      [] x.t = "obj" -> DOMAIN x.v # {}
      [] x.t = "num" -> TRUE
      [] x.t = "null" -> FALSE

\* a or b
JOr(a, b) == IF JTruthy(a) THEN a ELSE b

\* str(x); the model puts no array or object where str() is applied
PyStr(x) == IF x.t \in {"str", "num"} THEN x.v ELSE <<"#", "?">>

\* a value as it stands in an output record: a string as its characters,
\* any other value as a mark of its type
Plain(x) ==
    CASE x.t = "str" -> x.v
      [] x.t = "num" -> <<"#num">>
      [] x.t = "null" -> <<"#null">>
      [] x.t = "arr" -> <<"#arr">>
      [] x.t = "obj" -> <<"#obj">>

\* a step of a safe_get path: a key of an object, an index (from 0) of a list
Key(k) == <<"key", k>>

Index(i) == <<"index", i>>

\* obj[k]: ok is FALSE when Python raises (KeyError, IndexError, TypeError)
Item(obj, k) ==
    IF k[1] = "key"
    THEN IF obj.t = "obj" /\ k[2] \in DOMAIN obj.v
         THEN [ok |-> TRUE, v |-> obj.v[k[2]]]
         ELSE [ok |-> FALSE, v |-> JNull]
    ELSE IF obj.t = "arr" /\ k[2] < Len(obj.v)
         THEN [ok |-> TRUE, v |-> obj.v[k[2] + 1]]
         ELSE IF obj.t = "str" /\ k[2] < Len(obj.v)
         THEN [ok |-> TRUE, v |-> JStr(<<obj.v[k[2] + 1]>>)]
         ELSE [ok |-> FALSE, v |-> JNull]

\* obj.get(k, default): ok is FALSE when obj is no dict (AttributeError)
DictGet(obj, k, default) ==
    IF obj.t = "obj"
    THEN [ok |-> TRUE, v |-> IF k \in DOMAIN obj.v THEN obj.v[k] ELSE default]
    ELSE [ok |-> FALSE, v |-> JNull]

\* safe_get(obj, *keys): any miss yields ""
RECURSIVE safe_get(_, _)
safe_get(obj, keys) ==
    IF keys = <<>> THEN obj
    ELSE LET r == Item(obj, keys[1]) IN
         IF r.ok THEN safe_get(r.v, Tail(keys)) ELSE JStr(<<>>)

\* author_en of clean_worldcat_data: "" unless the whole try block succeeds
AuthorEn(data) ==
    LET contributor == DictGet(data, "contributor", JObj(NoKeys))
        creators == DictGet(contributor.v, "creators", JArr(<<>>))
        first_creator == Item(creators.v, Index(0))
        name == DictGet(first_creator.v, "name", JNull)
        firstName == DictGet(first_creator.v, "firstName", JObj(NoKeys))
        text == DictGet(firstName.v, "text", JStr(<<>>))
    IN IF ~contributor.ok THEN JStr(<<>>)
       ELSE IF ~creators.ok THEN JStr(<<>>)
       ELSE IF ~JTruthy(creators.v) THEN JStr(<<>>)
       ELSE IF ~first_creator.ok THEN JStr(<<>>)
       ELSE IF ~name.ok THEN JStr(<<>>)
       ELSE IF JTruthy(name.v) THEN name.v
       ELSE IF ~firstName.ok THEN JStr(<<>>)
       ELSE IF ~text.ok THEN JStr(<<>>)
       ELSE text.v

\* the loop over the subjects: an element that raises ends the loop, the
\* subjects appended before it are kept
RECURSIVE SubjectsLoop(_)
SubjectsLoop(list) ==
    IF list = <<>> THEN <<>>
    ELSE LET s == list[1]
             subjectName == DictGet(s, "subjectName", JObj(NoKeys))
             text == DictGet(subjectName.v, "text", JNull)
             label == DictGet(s, "label", JNull)
             subj == JOr(text.v, label.v)
         IN IF ~subjectName.ok THEN <<>>
            ELSE IF ~text.ok THEN <<>>
            ELSE (IF JTruthy(subj) THEN <<subj>> ELSE <<>>)
                 \o SubjectsLoop(Tail(list))

\* the subjects clean_worldcat_data collects; iterating a string or an
\* object yields strings, whose .get raises at the first one, and iterating
\* a number or null raises
Subjects(data) ==
    LET it == DictGet(data, "subjects", JArr(<<>>)) IN
    IF it.ok /\ it.v.t = "arr" THEN SubjectsLoop(it.v.v) ELSE <<>>

\* "; ".join(subjects) raises TypeError on an element that is no string
JoinRaises(subjects) == \E i \in 1..Len(subjects) : subjects[i].t # "str"

\* clean_worldcat_data(data, oclc_number) raises: the join of the subjects
\* is outside every try block
clean_worldcat_data_raises(data) == JoinRaises(Subjects(data))

\* translate_text(x) of a JSON value, the provider behaving as p
TranslateValue(p, x) ==
    IF ~JTruthy(x) THEN <<>> ELSE StubTranslate(p, PyStr(x))

\* clean_worldcat_data(data, oclc_number) when it does not raise, the
\* provider behaving as p
clean_worldcat_data(data, oclc_number, p) ==
    LET title_en == safe_get(data, <<Key("title"), Key("mainTitles"), Index(0),
                                       Key("text")>>)
        author_en == AuthorEn(data)
        subjects == Subjects(data)
        publisher_en ==
            safe_get(data, <<Key("publishers"), Index(0), Key("publisherName"),
                             Key("text")>>)
        description_en ==
            JOr(safe_get(data, <<Key("description"), Key("physicalDescription")>>),
                safe_get(data, <<Key("description"), Key("abstract")>>))
        format_en == safe_get(data, <<Key("format"), Key("generalFormat")>>)
        pub_date == safe_get(data, <<Key("date"), Key("publicationDate")>>)
        lang_en == safe_get(data, <<Key("language"), Key("itemLanguage")>>)
        joined == Join([i \in 1..Len(subjects) |-> PyStr(subjects[i])],
                       <<";", " ">>)
    IN [k \in {"OCLC Number", "Title (English)", "Title (Spanish)",
               "Author (English)", "Author (Spanish)", "Subjects (English)",
               "Subjects (Spanish)", "Publisher (English)",
               "Publisher (Spanish)", "Description (English)",
               "Description (Spanish)", "Format (English)",
               "Format (Spanish)", "Date", "Language (English)",
               "Language (Spanish)"} |->
          CASE k = "OCLC Number" -> oclc_number
            [] k = "Title (English)" -> Plain(title_en)
            [] k = "Title (Spanish)" -> TranslateValue(p, title_en)
            [] k = "Author (English)" -> Plain(author_en)
            [] k = "Author (Spanish)" -> TranslateValue(p, author_en)
            [] k = "Subjects (English)" -> joined
            [] k = "Subjects (Spanish)" -> StubTranslate(p, joined)
            [] k = "Publisher (English)" -> Plain(publisher_en)
            [] k = "Publisher (Spanish)" -> TranslateValue(p, publisher_en)
            [] k = "Description (English)" -> Plain(description_en)
            [] k = "Description (Spanish)" -> TranslateValue(p, description_en)
            [] k = "Format (English)" -> Plain(format_en)
            [] k = "Format (Spanish)" -> TranslateValue(p, format_en)
            [] k = "Date" -> Plain(pub_date)
            [] k = "Language (English)" -> Plain(lang_en)
            [] k = "Language (Spanish)" -> TranslateValue(p, lang_en)]

(***************************************************************************)
(* The batch loops: fetch_metadata_from_csv and the YouTube and Spotify    *)
(* oEmbed tabs of pages/4_Metadata_Aggregator.py.                          *)
(***************************************************************************)
T_Hi == <<"H", "i">>

T_Al == <<"A", "l">>

T_Book == <<"B", "o", "o", "k">>

T_Fiction == <<"F", "i", "c", "t", "i", "o", "n">>

\* a WorldCat document a lookup may return
SamplePayloads ==
    { JObj([title |-> JObj([mainTitles |-> JArr(<< JObj([text |-> JStr(T_Hi)]) >>)]),
            contributor |->
                JObj([creators |-> JArr(<< JObj([name |-> JStr(T_Al)]) >>)]),
            subjects |->
                JArr(<< JObj([subjectName |-> JObj([text |-> JStr(T_Book)])]) >>)]) }

\* what a catalog lookup may do: answer with a status and a JSON body, or
\* raise (a transport error, a body that is not JSON)
LookupResponses ==
    [kind : {"response"}, status : {200},
     data : SamplePayloads \cup {JObj(NoKeys)}]
    \cup [kind : {"response"}, status : {404}, data : {JNull}]
    \cup [kind : {"exception"}, status : {0}, data : {JNull}]

\* the provider behaviours met in the loop of fetch_metadata_from_csv
LoopProviders == {"down", "es"}

\* fetch_worldcat_data(oclc_number, token) when the request does not raise:
\* the JSON document, or None
fetch_worldcat_data(resp) == IF resp.status = 200 THEN resp.data ELSE JNull

\* oEmbed documents
OembedDocs ==
    { [title |-> T_Hi, author_name |-> T_Al, thumbnail_url |-> <<"u">>],
      [title |-> <<"<", "b", ">", "H", "i", " ">>] }

OembedResponses ==
    [kind : {"response"}, status : {200}, data : OembedDocs]
    \cup [kind : {"response"}, status : {404}, data : {<<>>}]
    \cup [kind : {"exception"}, status : {0}, data : {<<>>}]

S_youtube == <<"y", "o", "u", "t", "u", "b", "e">>

S_spotify == <<"s", "p", "o", "t", "i", "f", "y">>

SourceName(kind) == IF kind = "youtube" THEN S_youtube ELSE S_spotify

\* a mutant of OembedRow: the thumbnail is listed even when there is none
OembedRow_AlwaysThumbnail(kind, url, data) ==
    [source |-> SourceName(kind),
     id |-> url,
     title |-> clean_text(Get(data, "title", <<>>)),
     creator |-> clean_text(Get(data, "author_name", <<>>)),
     description |-> <<>>,
     date |-> <<>>,
     tags |-> <<>>,
     media_urls |-> <<Get(data, "thumbnail_url", <<>>)>>]

\* the row a YouTube or Spotify tab appends for a 200 response
OembedRow(kind, url, data) ==
    [source |-> SourceName(kind),
     id |-> url,
     title |-> clean_text(Get(data, "title", <<>>)),
     creator |-> clean_text(Get(data, "author_name", <<>>)),
     description |-> <<>>,
     date |-> <<>>,
     tags |-> <<>>,
     media_urls |-> IF Truthy(Get(data, "thumbnail_url", <<>>))
                    THEN <<data.thumbnail_url>> ELSE <<>>]

\* token_expires_at is the expires_at the cache held for op.token when
\* fetch_oclc_token returned it
IdleOp ==
    [kind |-> "none", pc |-> "idle", inputs |-> <<>>, idx |-> 1,
     token |-> None, token_expires_at |-> 0, records |-> <<>>,
     failed |-> <<>>, attempts |-> <<>>]

\* the request a loop sent for an item at time t, and how it ended; valid
\* tells whether the token it carried was still within its validity,
\* empty_body whether the answer carried an empty document or none; the
\* oEmbed loops never look at the document before they build the row
Attempt(o, item, t, resp) ==
    [item |-> item, kind |-> resp.kind, status |-> resp.status,
     empty_body |-> IF o.kind = "csv" THEN ~JTruthy(resp.data)
                    ELSE ~Truthy(resp.data),
     clean_raised |-> /\ o.kind = "csv" /\ resp.kind = "response"
                      /\ JTruthy(fetch_worldcat_data(resp))
                      /\ clean_worldcat_data_raises(fetch_worldcat_data(resp)),
     valid |-> t < o.token_expires_at]

\* a mutant of CsvRowStep: an exception ends the loop
CsvRowStep_AbortOnError(o, resp, p, t) ==
    LET oclc_number == Strip(o.inputs[o.idx])
        o1 == [o EXCEPT !.idx = @ + 1,
                        !.attempts = Append(@, Attempt(o, oclc_number, t,
                                                       resp))]
    IN IF ~Truthy(oclc_number) THEN [o EXCEPT !.idx = @ + 1]
       ELSE IF resp.kind = "exception"
       THEN [o1 EXCEPT !.pc = "raised"]
       ELSE IF ~JTruthy(fetch_worldcat_data(resp))
       THEN [o1 EXCEPT !.failed = Append(@, oclc_number)]
       ELSE IF clean_worldcat_data_raises(fetch_worldcat_data(resp))
       THEN [o1 EXCEPT !.pc = "raised"]
       ELSE [o1 EXCEPT !.records =
                Append(@, clean_worldcat_data(fetch_worldcat_data(resp),
                                              oclc_number, p))]

\* one iteration of the loop of fetch_metadata_from_csv at time t, the
\* lookup ending as resp and the translation provider behaving as p
CsvRowStep(o, resp, p, t) ==
    LET oclc_number == Strip(o.inputs[o.idx])
        o1 == [o EXCEPT !.idx = @ + 1,
                        !.attempts = Append(@, Attempt(o, oclc_number, t,
                                                       resp))]
    IN IF ~Truthy(oclc_number) THEN [o EXCEPT !.idx = @ + 1]
       ELSE IF resp.kind = "exception"
       THEN [o1 EXCEPT !.failed =
                Append(@, oclc_number \o <<" ", "(", "e", ")">>)]
       ELSE IF ~JTruthy(fetch_worldcat_data(resp))
       THEN [o1 EXCEPT !.failed = Append(@, oclc_number)]
       ELSE IF clean_worldcat_data_raises(fetch_worldcat_data(resp))
       THEN [o1 EXCEPT !.failed =
                Append(@, oclc_number \o <<" ", "(", "e", ")">>)]
       ELSE [o1 EXCEPT !.records =
                Append(@, clean_worldcat_data(fetch_worldcat_data(resp),
                                              oclc_number, p))]

\* one iteration of the loop of a YouTube or Spotify tab
OembedRowStep(o, resp, t) ==
    LET url == o.inputs[o.idx]
        o1 == [o EXCEPT !.idx = @ + 1,
                        !.attempts = Append(@, Attempt(o, url, t, resp))]
    IN IF resp.kind = "exception"
       THEN [o1 EXCEPT !.failed = Append(@, url)]
       ELSE IF resp.status = 200
       THEN [o1 EXCEPT !.records = Append(@, OembedRow(o.kind, url, resp.data))]
       ELSE [o1 EXCEPT !.failed = Append(@, url)]

\* [u.strip() for u in lines if u.strip()]
StrippedNonEmpty(lines) ==
    LET kept == SelectSeq(lines, LAMBDA u : Truthy(Strip(u)))
    IN [i \in 1..Len(kept) |-> Strip(kept[i])]

\* the cells of the "OCLC Number" column, the lines of a URL text area
Cells == {<<" ", "1">>, <<" ">>}

RECURSIVE SeqsUpTo(_, _)
SeqsUpTo(S, n) ==
    IF n = 0 THEN {<<>>}
    ELSE SeqsUpTo(S, n - 1)
         \cup {Append(q, x) : q \in {r \in SeqsUpTo(S, n - 1) : Len(r) = n - 1},
                              x \in S}

StoreVars == <<raw_file, log_file, inv, hist>>

\* the locals of a handler that has returned or raised are gone
Dropped(o) == IF o.pc \in {"token", "loop"} THEN o ELSE IdleOp

\* an assignment to the slot by caller c: the calls of the others that are
\* past their test are no longer alone
Disturbed(fr, c) ==
    [d \in Callers |->
        IF d # c /\ fr[d].pc \notin {"idle", "clock"}
        THEN [fr[d] EXCEPT !.alone = FALSE] ELSE fr[d]]

\* What the return or the raise of fetch_oclc_token leaves of the batch: the
\* CSV function enters its loop with the token, or raises in its turn. The
\* frame df it was called with is not read before the loop: it is drawn here.
AfterToken(o, c, raised, value, cache, df) ==
    IF c # "csv" THEN Dropped(o)
    ELSE IF raised THEN [o EXCEPT !.pc = "raised", !.inputs = df]
    ELSE [o EXCEPT !.pc = "loop", !.inputs = df, !.token = value,
                   !.token_expires_at = cache.expires_at]

\* the frames a caller may hold
Frames(c) == IF c = "csv" THEN SeqsUpTo(Cells, MaxRows) ELSE {<<>>}

\* time passes
Tick ==
    /\ now < MaxTime
    /\ now' = now + 1
    /\ tokcall' = NoTokCall
    /\ op' = Dropped(op)
    /\ UNCHANGED <<_token_cache, frames, StoreVars, tr, mp, call, poll>>

\* fetch_oclc_token() called by a page (the WorldCat tab), whatever the
\* other session is doing: it reads the clock
TokenCall ==
    /\ frames["page"].pc = "idle"
    /\ frames' = [frames EXCEPT !["page"] = ClockRead(now)]
    /\ tokcall' = NoTokCall
    /\ op' = Dropped(op)
    /\ UNCHANGED <<now, _token_cache, StoreVars, tr, mp, call, poll>>

\* fetch_metadata_from_csv(df) is called and calls fetch_oclc_token(), which
\* reads the clock
CsvStart ==
    /\ frames["csv"].pc = "idle"
    /\ op.pc \notin {"token", "loop"}
    /\ frames' = [frames EXCEPT !["csv"] = ClockRead(now)]
    /\ tokcall' = NoTokCall
    /\ op' = [IdleOp EXCEPT !.kind = "csv", !.pc = "token"]
    /\ UNCHANGED <<now, _token_cache, StoreVars, tr, mp, call, poll>>

\* the call of c tests the slot
TokenTest(c) ==
    LET f == Tested(frames[c], _token_cache) IN
    /\ frames[c].pc = "clock"
    /\ frames' = [frames EXCEPT ![c] = f]
    /\ tokcall' = TokCall(c, "test", f, _token_cache, _token_cache, 0, None)
    /\ op' = Dropped(op)
    /\ UNCHANGED <<now, _token_cache, StoreVars, tr, mp, call, poll>>

\* the call of c, its test passed, returns _token_cache["token"]
TokenHit(c) ==
    LET value == _token_cache.token IN
    /\ frames[c].pc = "hit"
    /\ tokcall' = TokCall(c, "return", frames[c], _token_cache, _token_cache,
                          0, value)
    /\ frames' = [frames EXCEPT ![c] = NoFrame]
    /\ \E df \in Frames(c) :
           op' = AfterToken(op, c, FALSE, value, _token_cache, df)
    /\ UNCHANGED <<now, _token_cache, StoreVars, tr, mp, call, poll>>

\* requests.post returns in the call of c: the token is assigned to the
\* slot, or the call raises
TokenAnswer(c) ==
    \E resp \in ExchangeResponses, df \in Frames(c) :
        LET a == Answered(frames[c], _token_cache, resp)
            raised == a.frame.pc = "raised"
        IN /\ frames[c].pc = "post"
           /\ _token_cache' = a.cache
           /\ tokcall' = IF raised
                         THEN TokCall(c, "raise", a.frame, _token_cache,
                                      a.cache, 1, None)
                         ELSE NoTokCall
           /\ frames' = IF raised THEN [frames EXCEPT ![c] = NoFrame]
                        ELSE Disturbed([frames EXCEPT ![c] = a.frame], c)
           /\ op' = IF raised
                    THEN AfterToken(op, c, TRUE, None, a.cache, df)
                    ELSE Dropped(op)
           /\ UNCHANGED <<now, StoreVars, tr, mp, call, poll>>

\* the call of c assigns expires_at to the slot
TokenExpires(c) ==
    LET w == ExpiresWritten(frames[c], _token_cache) IN
    /\ frames[c].pc = "token_written"
    /\ _token_cache' = w.cache
    /\ frames' = Disturbed([frames EXCEPT ![c] = w.frame], c)
    /\ tokcall' = NoTokCall
    /\ op' = Dropped(op)
    /\ UNCHANGED <<now, StoreVars, tr, mp, call, poll>>

\* the call of c, its two assignments made, returns _token_cache["token"]
TokenReturn(c) ==
    LET value == _token_cache.token IN
    /\ frames[c].pc = "expires_written"
    /\ tokcall' = TokCall(c, "return", frames[c], _token_cache, _token_cache,
                          1, value)
    /\ frames' = [frames EXCEPT ![c] = NoFrame]
    /\ \E df \in Frames(c) :
           op' = AfterToken(op, c, FALSE, value, _token_cache, df)
    /\ UNCHANGED <<now, _token_cache, StoreVars, tr, mp, call, poll>>

\* one row of the CSV; time.sleep(1) ends the iteration of a non-empty cell
CsvRow ==
    \E resp \in LookupResponses, p \in LoopProviders :
        /\ op.kind = "csv" /\ op.pc = "loop" /\ op.idx <= Len(op.inputs)
        /\ now < MaxTime
        /\ op' = CsvRowStep(op, resp, p, now)
        /\ now' = IF Truthy(Strip(op.inputs[op.idx])) THEN now + 1 ELSE now
        /\ tokcall' = NoTokCall
        /\ UNCHANGED <<_token_cache, frames, StoreVars, tr, mp, call, poll>>

\* the "Fetch ... Metadata" button of the YouTube or the Spotify tab
OembedStart ==
    \E kind \in {"youtube", "spotify"}, lines \in SeqsUpTo(Cells, MaxRows) :
        /\ op.pc \notin {"token", "loop"}
        /\ op' = [IdleOp EXCEPT !.kind = kind, !.pc = "loop",
                                !.inputs = StrippedNonEmpty(lines)]
        /\ tokcall' = NoTokCall
        /\ UNCHANGED <<now, _token_cache, frames, StoreVars, tr, mp, call,
                       poll>>

\* one URL of the tab's loop
OembedStep ==
    \E resp \in OembedResponses :
        /\ op.kind \in {"youtube", "spotify"} /\ op.pc = "loop"
        /\ op.idx <= Len(op.inputs)
        /\ op' = OembedRowStep(op, resp, now)
        /\ tokcall' = NoTokCall
        /\ UNCHANGED <<now, _token_cache, frames, StoreVars, tr, mp, call,
                       poll>>

\* the loop is over: the CSV function returns, the tab shows its preview
BatchFinish ==
    /\ op.pc = "loop" /\ op.idx > Len(op.inputs)
    /\ op' = [op EXCEPT !.pc = "done"]
    /\ tokcall' = NoTokCall
    /\ UNCHANGED <<now, _token_cache, frames, StoreVars, tr, mp, call, poll>>

\* C29: every catalog lookup issued by fetch_metadata_from_csv carries a
\* token that is still within its validity (now < expires_at) at the
\* moment the lookup is sent, for batches of any length: the token is
\* obtained once before the loop, which then pauses one second per record.
Orig_C29 ==
    op.kind = "csv" =>
        \A i \in 1..Len(op.attempts) : op.attempts[i].valid

\* the token is not even sure to be valid when the function obtains it:
\* expires_at counts from the clock read before the exchange, and the
\* exchange takes time (here as long as the token lives)
ExpiredWhenObtained ==
    /\ tokcall.caller = "csv" /\ tokcall.step = "return" /\ tokcall.alone
    /\ tokcall.exchange_calls = 1
    /\ op.pc = "loop" /\ op.attempts = <<>>
    /\ op.token = tokcall.value
    /\ now >= op.token_expires_at

\* a batch whose last lookup is sent when the token has expired, one
\* second of pause after each record and no other delay
OutlivesToken ==
    /\ op.kind = "csv" /\ Len(op.attempts) = MaxRows
    /\ op.attempts[1].valid
    /\ ~op.attempts[MaxRows].valid

\* a page exchanges while the loop of the CSV function runs: the loop goes
\* on with the token it was given, the slot holds another
ReplacedDuringLoop ==
    /\ op.kind = "csv" /\ op.pc = "loop" /\ Len(op.attempts) = 1
    /\ frames["page"].pc = "expires_written"
    /\ _token_cache.token # op.token

(***************************************************************************)
(* pages/4_Metadata_Aggregator.py: save_outputs.  The rows are Unified     *)
(* Records, named r0, r1, r2 in the state.  json.dump(merged, f, indent=2, *)
(* ensure_ascii=False) hands the text of the list to the file object chunk *)
(* by chunk, one f.write for each string its encoder yields; the text      *)
(* layer of the file object gathers the chunks and passes them on in       *)
(* batches, and the buffer below it makes the writes that reach the disk.  *)
(* The text of a file is a sequence of pieces <<u, a, b>>, the bytes       *)
(* a+1..b of unit u: a record, the bracket and indent that open the list,  *)
(* the comma and indent between two records, the newline and bracket that  *)
(* close it, the text of the empty list, or bytes never written.  The log  *)
(* is a sequence of lines, header lines and rows.                          *)
(***************************************************************************)
Procs == {1, 2}

\* the batches and the source names save_outputs is called with
Batches == {<<>>, <<"r1">>, <<"r2">>, <<"r1", "r2">>}

Sources == {"youtube", "omdb"}

X10 == "xxxxxxxxxx"

X100 == X10 \o X10 \o X10 \o X10 \o X10 \o X10 \o X10 \o X10 \o X10 \o X10

X1000 ==
    X100 \o X100 \o X100 \o X100 \o X100 \o X100 \o X100 \o X100 \o X100
    \o X100

S_worldcat == <<"w", "o", "r", "l", "d", "c", "a", "t">>

S_omdb == <<"o", "m", "d", "b">>

\* a Unified Record
UnifiedRecord(source, id, title, creator, description, date, tags, urls) ==
    [source |-> source, id |-> id, title |-> title, creator |-> creator,
     description |-> description, date |-> date, tags |-> tags,
     media_urls |-> urls]

\* the records the names stand for; a string value is the sequence of its
\* fragments: r0 and r2 carry a description of 4000 characters, r1 one of 100
Records ==
    [r0 |-> UnifiedRecord(S_worldcat, <<"r", "0">>, <<"r", "0">>, <<>>,
                          <<X1000, X1000, X1000, X1000>>, <<>>, <<>>, <<>>),
     r1 |-> UnifiedRecord(S_youtube, <<"r", "1">>, <<"r", "1">>, <<>>,
                          <<X100>>, <<>>, <<>>, <<>>),
     r2 |-> UnifiedRecord(S_omdb, <<"r", "2">>, <<"r", "2">>, <<>>,
                          <<X1000, X1000, X1000, X1000>>, <<>>, <<>>, <<>>)]

\* the keys of a Unified Record in the order the tabs insert them, and those
\* whose value is a list of strings
RecordKeys ==
    <<"source", "id", "title", "creator", "description", "date", "tags",
      "media_urls">>

ListKeys == {"tags", "media_urls"}

RECURSIVE Flatten(_)
Flatten(batches) ==
    IF batches = <<>> THEN <<>> ELSE batches[1] \o Flatten(Tail(batches))

\* the str of a value
RECURSIVE Cat(_)
Cat(v) == IF v = <<>> THEN "" ELSE v[1] \o Cat(Tail(v))

\* a string as the encoder writes it (ensure_ascii=False; the values hold
\* no character that is escaped)
Quoted(s) == "\"" \o s \o "\""

\* the newline and indent of nesting level n under indent=2
NewlineIndent(n) ==
    CASE n = 0 -> "\n"
      [] n = 1 -> "\n  "
      [] n = 2 -> "\n    "
      [] OTHER -> "\n      "

\* the chunks the encoder yields for a list of strings at level n
EncodeStrings(lst, n) ==
    IF lst = <<>> THEN <<"[]">>
    ELSE [i \in 1..Len(lst) |->
             (IF i = 1 THEN "[" ELSE ",") \o NewlineIndent(n + 1)
             \o Quoted(Cat(lst[i]))]
         \o <<NewlineIndent(n), "]">>

\* the chunks the encoder yields for a record at level n
EncodeRecord(d, n) ==
    <<"{", NewlineIndent(n)>>
    \o Flatten([i \in 1..Len(RecordKeys) |->
                   (IF i = 1 THEN <<>> ELSE <<"," \o NewlineIndent(n)>>)
                   \o <<Quoted(RecordKeys[i]), ": ">>
                   \o (IF RecordKeys[i] \in ListKeys
                       THEN EncodeStrings(d[RecordKeys[i]], n)
                       ELSE <<Quoted(Cat(d[RecordKeys[i]]))>>)])
    \o <<NewlineIndent(n - 1), "}">>

\* the chunks json.dump writes for a list of records, one f.write each
Chunks(rows) ==
    IF rows = <<>> THEN <<"[]">>
    ELSE Flatten([i \in 1..Len(rows) |->
                     <<(IF i = 1 THEN "[" ELSE ",") \o NewlineIndent(1)>>
                     \o EncodeRecord(Records[rows[i]], 2)])
         \o <<NewlineIndent(0), "]">>

RECURSIVE SumLen(_)
SumLen(chunks) ==
    IF chunks = <<>> THEN 0 ELSE Len(chunks[1]) + SumLen(Tail(chunks))

\* the bytes of the units: the text of each record, and the strings around
\* the records
RecordLen == [r \in DOMAIN Records |-> SumLen(EncodeRecord(Records[r], 2))]

Around == [open |-> "[\n  ", sep |-> ",\n  ", close |-> "\n]", empty |-> "[]"]

UnitLen(u) == IF u \in DOMAIN Around THEN Len(Around[u]) ELSE RecordLen[u]

Whole(u) == <<u, 0, UnitLen(u)>>

\* bytes never written, before the position of a later write
Nul(n) == <<"nul", 0, n>>

\* the text json.dump writes for a list, all chunks together
Text(rows) ==
    IF rows = <<>> THEN <<Whole("empty")>>
    ELSE Flatten([i \in 1..Len(rows) |->
                     <<Whole(IF i = 1 THEN "open" ELSE "sep"),
                       Whole(rows[i])>>])
         \o <<Whole("close")>>

RECURSIVE ByteLen(_)
ByteLen(text) ==
    IF text = <<>> THEN 0 ELSE text[1][3] - text[1][2] + ByteLen(Tail(text))

\* the first n bytes of a text, and what follows them
RECURSIVE Take(_, _)
Take(text, n) ==
    IF n <= 0 \/ text = <<>> THEN <<>>
    ELSE LET p == text[1]
             k == p[3] - p[2]
         IN IF k <= n THEN <<p>> \o Take(Tail(text), n - k)
            ELSE <<<<p[1], p[2], p[2] + n>>>>

RECURSIVE Drop(_, _)
Drop(text, n) ==
    IF text = <<>> THEN <<>>
    ELSE IF n <= 0 THEN text
    ELSE LET p == text[1]
             k == p[3] - p[2]
         IN IF k <= n THEN Drop(Tail(text), n - k)
            ELSE <<<<p[1], p[2] + n, p[3]>>>> \o Tail(text)

Slice(text, from, to) == Take(Drop(text, from), to - from)

\* pieces that follow each other in the same unit are one piece
RECURSIVE Joined(_)
Joined(text) ==
    IF Len(text) < 2 THEN text
    ELSE LET p == text[1]
             q == text[2]
         IN IF p[1] = "nul" /\ q[1] = "nul"
            THEN Joined(<<Nul(p[3] - p[2] + q[3] - q[2])>>
                        \o SubSeq(text, 3, Len(text)))
            ELSE IF p[1] = q[1] /\ p[3] = q[2]
            THEN Joined(<<<<p[1], p[2], q[3]>>>> \o SubSeq(text, 3, Len(text)))
            ELSE <<IF p[1] = "nul" THEN Nul(p[3] - p[2]) ELSE p>>
                 \o Joined(Tail(text))

\* f.write(chunk) on the text layer of the file object, which passes the
\* chunks on in batches; pending is the number of bytes it has gathered and
\* out the sizes of the batches passed on: a chunk that would take pending
\* over TextChunkSize sends the gathered bytes on first, and they are sent
\* on once they reach TextChunkSize.
TextChunkSize == 8192

TextWrite(f, chunk) ==
    LET n == Len(chunk)
        over == f.pending > 0 /\ f.pending + n > TextChunkSize
        out1 == IF over THEN Append(f.out, f.pending) ELSE f.out
        p1 == (IF over THEN 0 ELSE f.pending) + n
    IN IF p1 >= TextChunkSize
       THEN [pending |-> 0, out |-> Append(out1, p1)]
       ELSE [pending |-> p1, out |-> out1]

\* the f.write calls of json.dump, one after the other: those of the first
\* half of the chunks, then those of the second (the test on g has it
\* evaluated before the second half is entered)
RECURSIVE TextWrites(_, _)
TextWrites(chunks, f) ==
    IF chunks = <<>> THEN f
    ELSE IF Len(chunks) = 1 THEN TextWrite(f, chunks[1])
    ELSE LET h == Len(chunks) \div 2
             g == TextWrites(SubSeq(chunks, 1, h), f)
         IN IF g.pending >= 0
            THEN TextWrites(SubSeq(chunks, h + 1, Len(chunks)), g)
            ELSE g

\* the batches of a text: those of its chunks, and what is left at the close
Buffered(chunks) ==
    LET f == TextWrites(chunks, [pending |-> 0, out |-> <<>>])
    IN IF f.pending = 0 THEN f.out ELSE Append(f.out, f.pending)

\* The writes the buffer of the file object makes of the batches; held is
\* the number of bytes in the buffer, of BufferSize bytes (the block size of
\* the file system): a batch that fits is held; one that does not sends the
\* held bytes to the disk, and goes to the disk itself when it is larger
\* than the buffer; the close sends what is held.
BufferSize == 4096

RECURSIVE RawWrites(_, _, _)
RawWrites(batches, held, out) ==
    IF batches = <<>>
    THEN IF held = 0 THEN out ELSE Append(out, held)
    ELSE LET b == Head(batches)
             out1 == IF held > 0 THEN Append(out, held) ELSE out
         IN IF b <= BufferSize - held
            THEN RawWrites(Tail(batches), held + b, out)
            ELSE IF b > BufferSize
            THEN RawWrites(Tail(batches), 0, Append(out1, b))
            ELSE RawWrites(Tail(batches), b, out1)

\* json.dump(merged, f) and the close of f: the number of bytes of each
\* write that reaches the disk, in order
Parts(merged) == RawWrites(Buffered(Chunks(merged)), 0, <<>>)

\* a write of part at position pos of a file holding text: it replaces what
\* is there, and leaves what lies beyond it
WriteAt(text, pos, part) ==
    LET padded == IF ByteLen(text) < pos
                  THEN text \o <<Nul(pos - ByteLen(text))>>
                  ELSE text
    IN Joined(Take(padded, pos) \o part
              \o Drop(padded, pos + ByteLen(part)))

\* json.load(f): the list, or an exception (ok is FALSE).  A text is that
\* of a list when it is the text of the empty list, or the opening, whole
\* records with the separator between them, and the closing.
json_load(text) ==
    LET m == (Len(text) - 1) \div 2 IN
    IF text = <<Whole("empty")>> THEN [ok |-> TRUE, rows |-> <<>>]
    ELSE IF /\ Len(text) >= 3 /\ Len(text) = 2 * m + 1
            /\ text[1] = Whole("open") /\ text[Len(text)] = Whole("close")
            /\ \A i \in 1..m :
                  /\ text[2 * i][1] \in DOMAIN Records
                  /\ text[2 * i] = Whole(text[2 * i][1])
                  /\ i > 1 => text[2 * i - 1] = Whole("sep")
    THEN [ok |-> TRUE, rows |-> [i \in 1..m |-> text[2 * i][1]]]
    ELSE [ok |-> FALSE, rows |-> <<>>]


NoFile == [exists |-> FALSE, text |-> <<>>]

\* a file that holds the text of a list
FileOf(rows) == [exists |-> TRUE, text |-> Text(rows)]

NoLog == [exists |-> FALSE, lines |-> <<>>]

\* the locals of an invocation: pc is the statement it has reached, stopped
\* tells that its process was stopped there; parts is the sizes of the
\* writes its file object has still to make and pos the position of its
\* handle; timestamp is the clock as line 61 read it; before and log_before
\* are the files as the invocation found them
IdleInv ==
    [pc |-> "idle", stopped |-> FALSE, rows |-> <<>>, source_name |-> "",
     existing |-> <<>>, merged |-> <<>>, parts |-> <<>>, pos |-> 0,
     timestamp |-> 0, write_header |-> FALSE, before |-> NoFile,
     log_before |-> NoLog]

\* written and writers: the batches whose write of the collection has ended,
\* and the invocations that wrote them
NoHist ==
    [initial |-> <<>>, initial_log |-> NoLog, calls |-> 0, written |-> <<>>,
     writers |-> <<>>, completed |-> <<>>, torn |-> FALSE]

\* whether json.load reads a list from the file
Parsable(file) == file.exists /\ json_load(file.text).ok

\* existing, as lines 46-52 load it
LoadExisting(file) ==
    IF Parsable(file) THEN json_load(file.text).rows ELSE <<>>

\* a mutant of Merged: rows already stored are not stored again
Merged_Dedup(existing, rows) ==
    existing \o
    SelectSeq(rows, LAMBDA r : \A i \in 1..Len(existing) : existing[i] # r)

\* a mutant of Merged: the loaded rows are dropped
Merged_RowsOnly(existing, rows) == rows

\* merged = existing + rows
Merged(existing, rows) == existing \o rows

\* open(raw_path, "w"): the file is there and empty
Truncated == [exists |-> TRUE, text |-> <<>>]

\* the row written to the log
LogEntry(source_name, rows, t) ==
    [timestamp |-> t, source |-> source_name, count |-> Len(rows)]

HeaderLine == <<"header">>

RowLine(entry) == <<"row", entry>>

\* lines 66-70 and the close of the log: the header if write_header, then
\* the row, appended at the end of the file
AppendLog(log, write_header, entry) ==
    [exists |-> TRUE,
     lines |-> log.lines
               \o (IF write_header THEN <<HeaderLine>> ELSE <<>>)
               \o <<RowLine(entry)>>]

\* the rows of a log, and the number of its header lines
LogRows(log) ==
    LET rows == SelectSeq(log.lines, LAMBDA l : l[1] = "row")
    IN [i \in 1..Len(rows) |-> rows[i][2]]

Headers(log) == Len(SelectSeq(log.lines, LAMBDA l : l[1] = "header"))

\* a mutant of SaveStep: the collection is read again when it is opened
\* for writing
SaveStep_Reload(st, p) ==
    LET me == st.inv[p] IN
    CASE me.pc = "loaded" ->
            [st EXCEPT !.raw_file = Truncated,
                       !.inv[p].merged =
                           Merged(LoadExisting(st.raw_file), me.rows),
                       !.inv[p].parts =
                           Parts(Merged(LoadExisting(st.raw_file), me.rows)),
                       !.inv[p].pc = "opened"]
      [] me.pc = "opened" ->
            [st EXCEPT !.raw_file.text =
                           WriteAt(@, me.pos,
                                   Slice(Text(me.merged), me.pos,
                                         me.pos + me.parts[1])),
                       !.inv[p].pos = @ + me.parts[1],
                       !.inv[p].parts = Tail(@),
                       !.inv[p].pc = IF Len(me.parts) = 1 THEN "written"
                                     ELSE "opened"]
      [] me.pc = "written" ->
            [st EXCEPT !.inv[p].timestamp = st.t,
                       !.inv[p].write_header = ~st.log_file.exists,
                       !.inv[p].pc = "tested"]
      [] me.pc = "tested" ->
            [st EXCEPT !.log_file.exists = TRUE,
                       !.inv[p].pc = "appending"]
      [] OTHER ->
            [st EXCEPT !.log_file =
                           AppendLog(@, me.write_header,
                                     LogEntry(me.source_name, me.rows,
                                              me.timestamp)),
                       !.inv[p].pc = "done"]

\* the next access of invocation p to a file:
\*   loaded    -> open(raw_path, "w") empties the collection (line 56)
\*   opened    -> the next write the file object makes to the disk, during
\*                json.dump or at the close (line 57), at the position of
\*                the handle; after the last, "written"
\*   written   -> the clock is read (line 61) and write_header =
\*                not os.path.exists(log_path) (line 64)
\*   tested    -> open(log_path, "a") creates the log if need be (line 65)
\*   appending -> the header, the row and the close (lines 66-70)
SaveStep(st, p) ==
    LET me == st.inv[p] IN
    CASE me.pc = "loaded" ->
            [st EXCEPT !.raw_file = Truncated,
                       !.inv[p].parts = Parts(me.merged),
                       !.inv[p].pc = "opened"]
      [] me.pc = "opened" ->
            [st EXCEPT !.raw_file.text =
                           WriteAt(@, me.pos,
                                   Slice(Text(me.merged), me.pos,
                                         me.pos + me.parts[1])),
                       !.inv[p].pos = @ + me.parts[1],
                       !.inv[p].parts = Tail(@),
                       !.inv[p].pc = IF Len(me.parts) = 1 THEN "written"
                                     ELSE "opened"]
      [] me.pc = "written" ->
            [st EXCEPT !.inv[p].timestamp = st.t,
                       !.inv[p].write_header = ~st.log_file.exists,
                       !.inv[p].pc = "tested"]
      [] me.pc = "tested" ->
            [st EXCEPT !.log_file.exists = TRUE,
                       !.inv[p].pc = "appending"]
      [] OTHER ->
            [st EXCEPT !.log_file =
                           AppendLog(@, me.write_header,
                                     LogEntry(me.source_name, me.rows,
                                              me.timestamp)),
                       !.inv[p].pc = "done"]

Active(p) ==
    /\ inv[p].pc \in {"loaded", "opened", "written", "tested", "appending"}
    /\ ~inv[p].stopped

FetchVars == <<now, _token_cache, tokcall, frames, op>>

\* save_outputs(rows, source_name) is called, loads the collection and
\* merges (lines 44-55)
SaveLoad(p) ==
    \E rows \in Batches, source_name \in Sources :
        /\ ~Active(p)
        /\ hist.calls < MaxSaves
        /\ inv' = [inv EXCEPT ![p] =
                      [IdleInv EXCEPT
                          !.pc = "loaded", !.rows = rows,
                          !.source_name = source_name,
                          !.existing = LoadExisting(raw_file),
                          !.merged = Merged(LoadExisting(raw_file), rows),
                          !.before = raw_file, !.log_before = log_file]]
        /\ hist' = [hist EXCEPT !.calls = @ + 1]
        /\ UNCHANGED <<raw_file, log_file, FetchVars, tr, mp, call, poll>>

\* invocation p makes its next access to a file
SaveAdvance(p) ==
    LET st == SaveStep([raw_file |-> raw_file, log_file |-> log_file,
                        inv |-> inv, t |-> now], p)
    IN /\ Active(p)
       /\ raw_file' = st.raw_file
       /\ log_file' = st.log_file
       /\ inv' = st.inv
       /\ hist' = IF inv[p].pc = "opened" /\ st.inv[p].pc = "written"
                  THEN [hist EXCEPT !.written = Append(@, inv[p].rows),
                                    !.writers = Append(@, p)]
                  ELSE IF inv[p].pc = "appending"
                  THEN [hist EXCEPT !.completed =
                            Append(@, [source |-> inv[p].source_name,
                                       rows |-> inv[p].rows])]
                  ELSE hist
       /\ UNCHANGED <<FetchVars, tr, mp, call, poll>>

\* the process running invocation p is stopped before its next access to a
\* file: what its file object has not written is never written; hist.torn
\* tells that a process was stopped with the collection open for writing
SaveStop(p) ==
    /\ Active(p)
    /\ inv' = [inv EXCEPT ![p].stopped = TRUE]
    /\ hist' = [hist EXCEPT !.torn = @ \/ inv[p].pc = "opened"]
    /\ UNCHANGED <<raw_file, log_file, FetchVars, tr, mp, call, poll>>

NoTranslation ==
    [called |-> FALSE, text |-> <<>>, r1 |-> ProviderFailure,
     r2 |-> ProviderFailure, value |-> <<>>, calls |-> <<>>,
     raised |-> FALSE]

NoMapping ==
    [called |-> FALSE, item |-> <<>>, rt |-> ProviderFailure,
     rc |-> ProviderFailure, rd |-> ProviderFailure, dc |-> <<>>,
     calls |-> <<>>]

InitFetch ==
    /\ now = 0
    /\ _token_cache = [token |-> None, expires_at |-> 0]
    /\ tokcall = NoTokCall
    /\ frames = NoFrames
    /\ op = IdleOp
    /\ raw_file = NoFile
    /\ log_file = NoLog
    /\ inv = [p \in Procs |-> IdleInv]
    /\ hist = NoHist
    /\ tr = NoTranslation
    /\ mp = NoMapping
    /\ call = NoCall
    /\ poll = IdlePoll

NextFetch ==
    \/ Tick
    \/ TokenCall
    \/ CsvStart
    \/ \E c \in Callers : TokenTest(c)
    \/ \E c \in Callers : TokenHit(c)
    \/ \E c \in Callers : TokenAnswer(c)
    \/ \E c \in Callers : TokenExpires(c)
    \/ \E c \in Callers : TokenReturn(c)
    \/ CsvRow
    \/ OembedStart
    \/ OembedStep
    \/ BatchFinish

\* the token cache and the batch loops
SpecFetch == InitFetch /\ [][NextFetch]_vars

(***************************************************************************)
(* Claims on the token cache and the batch loops, checked under SpecFetch. *)
(***************************************************************************)
\* C1: fetch_oclc_token returns the cached token with no exchange call
\* exactly when a token is cached and its expires_at is more than 10
\* seconds after now; otherwise it makes exactly one exchange call and, on
\* status 200, it assigns to the cache slot the token of the answer and
\* expires_at = now + expires_in (3600 when expires_in is absent), now being
\* the clock read when the call began; the slot then holds the returned
\* token with that expires_at, unless another call wrote it meanwhile.
Claim_C1 ==
    LET c == tokcall
        fresh == c.pre.token # None /\ c.pre.expires_at - c.at > 10
        lifetime == IF c.resp.expires_in = <<>> THEN 3600
                    ELSE c.resp.expires_in[1]
        new == [token |-> c.resp.access_token,
                expires_at |-> c.at + lifetime]
    IN /\ c.step # "none" => _token_cache = c.post
       /\ c.step = "test" => (c.hit <=> fresh) /\ c.post = c.pre
       /\ c.step \in {"return", "raise"} =>
              /\ c.exchange_calls = 0 <=> c.hit
              /\ c.hit => /\ c.step = "return"
                          /\ c.wrote = <<>> /\ c.post = c.pre
                          /\ c.value = c.post.token /\ c.value # None
              /\ ~c.hit => /\ c.exchange_calls = 1
                           /\ c.resp.status = 200 =>
                                 /\ c.step = "return"
                                 /\ c.wrote =
                                        <<<<"token", new.token>>,
                                          <<"expires_at", new.expires_at>>>>
                                 /\ c.value = c.post.token
                                 /\ c.alone => c.post = new

\* C1's case: a call answered from the cache
Witness_C1 ==
    /\ tokcall.step = "return"
    /\ tokcall.exchange_calls = 0
    /\ tokcall.value \in AccessTokens
    /\ tokcall.post.expires_at > tokcall.at + 10

\* two calls overlap on an empty slot and both exchange: the call that ends
\* here returns a token that is not the one it was given
OverlappedExchange ==
    /\ tokcall.step = "return" /\ tokcall.exchange_calls = 1
    /\ ~tokcall.alone
    /\ tokcall.value # tokcall.resp.access_token

\* C2: a non-success answer to the exchange makes fetch_oclc_token raise
\* after that one call, the cache slot unchanged; fetch_metadata_from_csv
\* then raises with no lookup issued and no record produced.
Claim_C2 ==
    /\ (tokcall.step \in {"return", "raise"} /\ tokcall.exchange_calls > 0
            /\ tokcall.resp.status # 200)
        => /\ tokcall.raised
           /\ tokcall.exchange_calls = 1
           /\ tokcall.wrote = <<>>
           /\ tokcall.post = tokcall.pre
           /\ _token_cache = tokcall.pre
    /\ (tokcall.caller = "csv" /\ tokcall.raised)
        => /\ op.kind = "csv" /\ op.pc = "raised"
           /\ op.attempts = <<>> /\ op.records = <<>>
    /\ (tokcall.caller = "csv" /\ tokcall.step = "return") => op.pc = "loop"

\* C2's case: the CSV function called over a non-empty frame with a stale
\* token in the cache, the exchange refused
Witness_C2 ==
    /\ tokcall.caller = "csv" /\ tokcall.raised
    /\ tokcall.pre.token # None
    /\ op.pc = "raised" /\ Len(op.inputs) > 0

\* whether an attempt's answer makes a record
Succeeded(kind, a) ==
    /\ a.kind = "response" /\ a.status = 200
    /\ kind = "csv" => ~a.empty_body /\ ~a.clean_raised

\* the item a record was made for
RecordItem(kind, rec) == IF kind = "csv" THEN rec["OCLC Number"] ELSE rec.id

EmptyDocumentFailed ==
    /\ op.kind = "csv" /\ op.pc = "done"
    /\ \E i \in 1..Len(op.attempts) :
          /\ op.attempts[i].kind = "response" /\ op.attempts[i].status = 200
          /\ op.attempts[i].empty_body
    /\ op.records = <<>> /\ Len(op.failed) = Len(op.attempts)

(***************************************************************************)
(* save_outputs under sequential use: one invocation at a time, which may  *)
(* be stopped between any two of its steps.                                *)
(***************************************************************************)
\* the collection files and the logs save_outputs may find
\* (the second is the file a call stopped after the first write of the
\* text of r0 and r2 has left)
InitialFiles ==
    {NoFile,
     [exists |-> TRUE,
      text |-> Take(Text(<<"r0", "r2">>), Parts(<<"r0", "r2">>)[1])],
     FileOf(<<>>), FileOf(<<"r0">>)}

InitialLogs ==
    {NoLog, [exists |-> TRUE, lines |-> <<>>],
     [exists |-> TRUE, lines |-> <<HeaderLine>>]}

InitStore ==
    /\ now = 0
    /\ _token_cache = [token |-> None, expires_at |-> 0]
    /\ tokcall = NoTokCall
    /\ frames = NoFrames
    /\ op = IdleOp
    /\ raw_file \in InitialFiles
    /\ log_file \in InitialLogs
    /\ inv = [p \in Procs |-> IdleInv]
    /\ hist = [NoHist EXCEPT !.initial = LoadExisting(raw_file),
                             !.initial_log = log_file]
    /\ tr = NoTranslation
    /\ mp = NoMapping
    /\ call = NoCall
    /\ poll = IdlePoll

NextStore ==
    \/ SaveLoad(1)
    \/ SaveAdvance(1)
    \/ SaveStop(1)

SpecStore == InitStore /\ [][NextStore]_vars

\* the records a collection file holds
Content(file) == IF Parsable(file) THEN json_load(file.text).rows ELSE <<>>

RECURSIVE SumCounts(_)
SumCounts(rows) ==
    IF rows = <<>> THEN 0 ELSE rows[1].count + SumCounts(Tail(rows))

\* the invocation has written the collection
PastDump(p) == inv[p].pc \in {"written", "tested", "appending", "done"}

\* the collection is open for writing, or was when a process was stopped
Torn == hist.torn \/ \E p \in Procs : inv[p].pc = "opened"

\* C4: save_outputs rewrites the collection as existing ++ rows, existing
\* being what was stored, or nothing when the file is absent or unparsable;
\* so after sequential calls, each run to the end of its write, the
\* collection is what was there at first followed by every written batch in
\* call order, nothing removed, reordered or deduplicated.
Claim_C4 ==
    /\ \A p \in Procs :
          /\ inv[p].pc # "idle" =>
                /\ inv[p].existing = Content(inv[p].before)
                /\ inv[p].merged = inv[p].existing \o inv[p].rows
          /\ PastDump(p) =>
                /\ Parsable(raw_file)
                /\ Content(raw_file) = Content(inv[p].before) \o inv[p].rows
    /\ ~Torn => Content(raw_file) = hist.initial \o Flatten(hist.written)

\* C4's case: the same non-empty batch stored twice after records that were
\* there before
Witness_C4 ==
    /\ ~Torn
    /\ Len(hist.written) = 2
    /\ hist.written[1] = hist.written[2]
    /\ hist.written[1] # <<>>
    /\ hist.initial # <<>>
    /\ Len(Content(raw_file)) = Len(hist.initial) + 2 * Len(hist.written[1])

\* C5: a call with an empty batch leaves the collection's content as it
\* was, whatever the file held (or if there was none); only the log gains
\* a row.
Claim_C5 ==
    \A p \in Procs :
        (inv[p].rows = <<>> /\ PastDump(p)) =>
            /\ Content(raw_file) = Content(inv[p].before)
            /\ inv[p].pc \in {"written", "tested"} =>
                  log_file = inv[p].log_before
            /\ inv[p].pc = "appending" =>
                  log_file.lines = inv[p].log_before.lines
            /\ inv[p].pc = "done" =>
                  /\ Len(LogRows(log_file))
                       = Len(LogRows(inv[p].log_before)) + 1
                  /\ LogRows(log_file)[Len(LogRows(log_file))].count = 0

\* C5's case: an empty batch saved over a collection that holds a record
Witness_C5 ==
    \E p \in Procs :
        /\ inv[p].rows = <<>> /\ inv[p].pc = "done"
        /\ Content(inv[p].before) # <<>>

\* C6: every completed call adds one log row {timestamp, source, count}
\* with count the size of its batch, the header is written only by the call
\* that creates the log, and, the collection being written first, in every
\* reachable state, a stop between the two writes included, the logged
\* counts never add up to more than the records of the collection.
Orig_C6 ==
    /\ SumCounts(LogRows(log_file)) <= Len(Content(raw_file))
    /\ Len(LogRows(log_file)) = Len(hist.completed)
    /\ \A i \in 1..Len(hist.completed) :
          /\ LogRows(log_file)[i].source = hist.completed[i].source
          /\ LogRows(log_file)[i].count = Len(hist.completed[i].rows)
    /\ Headers(log_file) <= Headers(hist.initial_log) + 1
    /\ Headers(log_file) > Headers(hist.initial_log) =>
          ~hist.initial_log.exists

\* what does hold: the log is as C6 says, and its counts do not exceed the
\* records of the collection as long as no process is, or was stopped,
\* between open(raw_path, "w") and the end of json.dump
LogWithinCollection ==
    /\ ~Torn => SumCounts(LogRows(log_file)) <= Len(Content(raw_file))
    /\ Len(LogRows(log_file)) = Len(hist.completed)
    /\ \A i \in 1..Len(hist.completed) :
          /\ LogRows(log_file)[i].source = hist.completed[i].source
          /\ LogRows(log_file)[i].count = Len(hist.completed[i].rows)
    /\ Headers(log_file) <= Headers(hist.initial_log) + 1
    /\ Headers(log_file) > Headers(hist.initial_log) =>
          ~hist.initial_log.exists

\* a process was stopped inside the write of the collection, before its
\* first write: the file is empty, the records it held are gone, and the log
\* still counts them
StoppedInsideWrite ==
    /\ inv[1].pc = "opened" /\ inv[1].stopped
    /\ Content(inv[1].before) # <<>>
    /\ raw_file = Truncated
    /\ SumCounts(LogRows(log_file)) > 0

\* a process was stopped inside json.dump, after a write of the file object
\* and before its last: the file holds the beginning of the text
StoppedInsideDump ==
    /\ inv[1].pc = "opened" /\ inv[1].stopped
    /\ Content(inv[1].before) # <<>>
    /\ inv[1].pos > 0 /\ inv[1].parts # <<>>
    /\ raw_file.text = Take(Text(inv[1].merged), inv[1].pos)
    /\ ~Parsable(raw_file)

\* the call made after that: the collection holds its batch alone
LostForGood ==
    /\ hist.torn /\ inv[1].pc = "done"
    /\ inv[1].rows # <<>> /\ Content(raw_file) = inv[1].rows
    /\ SumCounts(LogRows(log_file)) > Len(Content(raw_file))

(***************************************************************************)
(* Two invocations of save_outputs against the same files, their loads and *)
(* writes interleaved in any order: no lock is taken on either file.       *)
(***************************************************************************)
MaxOverlap == 2     \* invocations in one behaviour of the interleaved runs

\* save_outputs is called in process p
OverlapLoad(p) == hist.calls < MaxOverlap /\ SaveLoad(p)

NextOverlap ==
    \E p \in Procs : OverlapLoad(p) \/ SaveAdvance(p) \/ SaveStop(p)

SpecOverlap == InitStore /\ [][NextOverlap]_vars

\* both invocations have completed, and both loaded the collection before
\* either opened it for writing
BothLoadedFirst ==
    /\ hist.calls = 2
    /\ \A p \in Procs : inv[p].pc = "done" /\ inv[p].before = inv[1].before
    /\ Len(hist.written) = 2
    /\ \A p \in Procs : inv[p].existing = hist.initial

\* the rows the log has gained
NewLogRows ==
    SubSeq(LogRows(log_file), Len(LogRows(hist.initial_log)) + 1,
           Len(LogRows(log_file)))

\* C27: save_outputs is safe only under strictly sequential use: when two
\* invocations against the same storage path interleave so that both load
\* the collection before either rewrites it, the final collection never
\* holds both batches: the file is no longer than the longer of the two
\* texts written, and it holds what was loaded followed by the batch of one
\* invocation only, or it cannot be parsed; the provenance log still
\* records both batches.
Claim_C27 ==
    BothLoadedFirst =>
        /\ \E p \in Procs :
              ByteLen(raw_file.text) <= ByteLen(Text(inv[p].merged))
        /\ Parsable(raw_file) =>
              \E p \in Procs :
                  Content(raw_file) = hist.initial \o inv[p].rows
        /\ Len(NewLogRows) = 2
        /\ SumCounts(NewLogRows)
             = Len(hist.written[1]) + Len(hist.written[2])
        /\ {[source |-> NewLogRows[i].source, count |-> NewLogRows[i].count] :
               i \in 1..2}
             = {[source |-> inv[q].source_name, count |-> Len(inv[q].rows)] :
                  q \in Procs}

\* C27's case, the lost update: both invocations loaded the same
\* collection, r1 was written first and r2 last; r1 is not in the final
\* collection although the log counts it
Witness_C27 ==
    /\ BothLoadedFirst
    /\ hist.initial = <<"r0">>
    /\ hist.written = <<<<"r1">>, <<"r2">>>>
    /\ Content(raw_file) = <<"r0", "r2">>
    /\ SumCounts(NewLogRows) = 2
    /\ Len(Content(raw_file)) < Len(hist.initial) + SumCounts(NewLogRows)

\* both invocations tested for the log before either created it: the log
\* has two header lines
TwoHeaders ==
    /\ \A p \in Procs : inv[p].pc = "done"
    /\ Headers(log_file) = 2 /\ Headers(hist.initial_log) = 0

\* both invocations had the collection open at once: the collection
\* cannot be parsed
OverwrittenInPart ==
    /\ BothLoadedFirst
    /\ ~Parsable(raw_file)

\* the collection cannot be parsed although the invocation whose write
\* ended last wrote the longer text: the other one opened the file and
\* wrote between two writes of its json.dump
LongerTextLast ==
    /\ \A p \in Procs : inv[p].pc = "done"
    /\ Len(hist.writers) = 2
    /\ ByteLen(Text(inv[hist.writers[2]].merged))
         > ByteLen(Text(inv[hist.writers[1]].merged))
    /\ ~Parsable(raw_file)

(***************************************************************************)
(* translate_text of utils/translation.py, called with any text against    *)
(* any provider.                                                           *)
(***************************************************************************)
T_Eh == <<"E", "h">>

TranslateInputs ==
    DOMAIN _MANUAL_MAP
    \cup {<<>>, <<" ">>, T_Hi, <<" ">> \o T_Hi, Lower(T_Hi),
          <<" ">> \o T_Book \o <<" ">>, Lower(T_Book)}

\* the texts a provider result may carry
ProviderTexts ==
    {T_Hi, Lower(T_Hi), T_Eh, <<" ">> \o T_Eh \o <<" ">>, <<>>, <<" ">>}

ProviderOutcomes ==
    {ProviderFailure} \cup {ProviderResult(t) : t \in ProviderTexts}

\* translate_text(text) is called
TranslateCall ==
    \E text \in TranslateInputs, r1 \in ProviderOutcomes,
       r2 \in ProviderOutcomes :
        LET out == translate_text(text, r1, r2) IN
        /\ tr' = [called |-> TRUE, text |-> text, r1 |-> r1, r2 |-> r2,
                  value |-> out.value, calls |-> out.calls,
                  raised |-> out.raised]
        /\ UNCHANGED <<FetchVars, StoreVars, mp, call, poll>>

InitTranslate ==
    /\ now = 0
    /\ _token_cache = [token |-> None, expires_at |-> 0]
    /\ tokcall = NoTokCall
    /\ frames = NoFrames
    /\ op = IdleOp
    /\ raw_file = NoFile
    /\ log_file = NoLog
    /\ inv = [p \in Procs |-> IdleInv]
    /\ hist = NoHist
    /\ mp = NoMapping
    /\ call = NoCall
    /\ poll = IdlePoll
    /\ tr = NoTranslation

NextTranslate == TranslateCall

SpecTranslate == InitTranslate /\ [][NextTranslate]_vars

\* C7: for a text that is a key of the manual map, translate_text returns
\* the mapped value and never calls the provider, whatever the provider
\* would have answered.
Claim_C7 ==
    (tr.called /\ tr.text \in DOMAIN _MANUAL_MAP) =>
        /\ tr.value = _MANUAL_MAP[tr.text]
        /\ tr.calls = <<>>
        /\ ~tr.raised

\* C7's case: a key translated while the provider would have answered
\* something else
Witness_C7 ==
    /\ tr.called /\ tr.text \in DOMAIN _MANUAL_MAP
    /\ tr.r1.ok /\ tr.r1.text \notin {<<>>, <<" ">>, tr.value, tr.text}
    /\ tr.value # tr.text

\* a provider call of the last translate_text call failed
ProviderFailed ==
    \/ Len(tr.calls) >= 1 /\ ~tr.r1.ok
    \/ Len(tr.calls) = 2 /\ ~tr.r2.ok

\* v is t without its leading and trailing spaces
IsTrimOf(v, t) ==
    /\ v # <<>> => v[1] # Space /\ v[Len(v)] # Space
    /\ \E a \in 0..Len(t) :
          /\ a + Len(v) <= Len(t)
          /\ SubSeq(t, a + 1, a + Len(v)) = v
          /\ \A i \in 1..Len(t) : (i <= a \/ i > a + Len(v)) => t[i] = Space

\* C8 as stated: translate_text never raises, and on a provider failure
\* (first call or retry) it returns the input text unchanged.
Orig_C8 ==
    tr.called =>
        /\ ~tr.raised
        /\ ProviderFailed => tr.value = tr.text

\* C8 as amended: translate_text never raises, and on a provider failure
\* (first call or retry) it returns the input text without its leading and
\* trailing whitespace.
Claim_C8 ==
    tr.called =>
        /\ ~tr.raised
        /\ ProviderFailed => IsTrimOf(tr.value, tr.text)

\* C8's case: the retry call fails for a text given with a leading space
Witness_C8 ==
    /\ tr.called /\ Len(tr.calls) = 2 /\ ~tr.r2.ok
    /\ tr.value # tr.text

\* the retry of the last translate_text call: made exactly when the first
\* provider result, trimmed, is the trimmed input but for the case of its
\* letters, and made with the trimmed input in small letters; never a
\* third call, and no call at all for an input that is empty or blank
RetryRule ==
    LET t == Strip(tr.text) IN
    /\ Len(tr.calls) <= 2
    /\ Len(tr.calls) >= 1 => tr.calls[1] = t
    /\ Len(tr.calls) = 2 =>
          /\ tr.r1.ok /\ Lower(Strip(tr.r1.text)) = Lower(t)
          /\ tr.calls[2] = Lower(t)
    /\ (Len(tr.calls) = 1 /\ tr.r1.ok) => Lower(Strip(tr.r1.text)) # Lower(t)
    /\ (\A i \in 1..Len(tr.text) : tr.text[i] = Space) => tr.calls = <<>>

\* C26 as stated, the texts being compared once trimmed: translate_text
\* calls the provider at most twice per call: a second (retry) call is made
\* only when the first result is case-insensitively identical to the input,
\* it is made once with the lower-cased input, and the returned value is
\* the retry result when that differs (case-insensitively) from the input
\* and the first provider result otherwise; an empty or whitespace-only
\* input causes no provider call.
Orig_C26 ==
    tr.called =>
        /\ RetryRule
        /\ Len(tr.calls) = 2 =>
              tr.value = IF tr.r2.ok /\ Lower(Strip(tr.r2.text))
                                          # Lower(Strip(tr.text))
                         THEN Strip(tr.r2.text)
                         ELSE Strip(tr.r1.text)

\* C26 as amended: translate_text calls the provider at most twice per
\* call: a second (retry) call is made exactly when the first result,
\* trimmed, is case-insensitively identical to the trimmed input, it is
\* made once with the lower-cased trimmed input, and the returned value is
\* the trimmed retry result when that differs (case-insensitively) from
\* the trimmed input, the trimmed first provider result when it does not,
\* and the trimmed input when the retry call raises; an empty or
\* whitespace-only input causes no provider call.
Claim_C26 ==
    tr.called =>
        /\ RetryRule
        /\ ~tr.raised
        /\ (Len(tr.calls) = 1 /\ tr.r1.ok) => tr.value = Strip(tr.r1.text)
        /\ Len(tr.calls) = 2 =>
              tr.value = IF ~tr.r2.ok THEN Strip(tr.text)
                         ELSE IF Lower(Strip(tr.r2.text))
                                   # Lower(Strip(tr.text))
                         THEN Strip(tr.r2.text)
                         ELSE Strip(tr.r1.text)

\* C26's case: the first result is the input in small letters, the retry
\* gives another text, which is returned trimmed
Witness_C26 ==
    /\ tr.called /\ Len(tr.calls) = 2
    /\ tr.text = T_Hi /\ tr.r1 = ProviderResult(Lower(T_Hi))
    /\ tr.r2.ok /\ tr.r2.text = <<" ">> \o T_Eh \o <<" ">>
    /\ tr.calls = <<T_Hi, Lower(T_Hi)>>
    /\ tr.value = T_Eh

(***************************************************************************)
(* map_to_dublin_core of the mapper page, called with any record against   *)
(* any provider.                                                           *)
(***************************************************************************)
T_2019 == <<"2", "0", "1", "9">>

\* the records the mapper may load: Unified Records, and two records with
\* capitalised or missing keys
MapperItems ==
    { UnifiedRecord(S_youtube, <<"u">>, t, c, d, dt, <<T_Book, T_Hi>>,
                    <<<<"i">>>>) :
        t \in {<<>>, T_Hi, T_Fiction, <<" ">>},
        c \in {<<>>, T_Al, T_Book},
        d \in {<<>>, T_Fiction},
        dt \in {<<>>, T_2019} }
    \cup { [Title |-> T_Hi, Creator |-> T_Al, Date |-> T_2019],
           [title |-> <<>>, Title |-> T_Book, tags |-> <<>>] }

\* what the provider may do when the mapper calls it
MapperOutcomes ==
    {ProviderFailure, ProviderResult(T_Eh), ProviderResult(<<>>)}

\* map_to_dublin_core(item) is called
MapItem ==
    \E item \in MapperItems, rt \in MapperOutcomes, rc \in MapperOutcomes,
       rd \in MapperOutcomes :
        /\ mp' = [called |-> TRUE, item |-> item, rt |-> rt, rc |-> rc,
                  rd |-> rd, dc |-> map_to_dublin_core(item, rt, rc, rd),
                  calls |-> MapperCalls(item, rt, rc, rd)]
        /\ UNCHANGED <<FetchVars, StoreVars, tr, call, poll>>

InitMapper ==
    /\ now = 0
    /\ _token_cache = [token |-> None, expires_at |-> 0]
    /\ tokcall = NoTokCall
    /\ frames = NoFrames
    /\ op = IdleOp
    /\ raw_file = NoFile
    /\ log_file = NoLog
    /\ inv = [p \in Procs |-> IdleInv]
    /\ hist = NoHist
    /\ tr = NoTranslation
    /\ mp = NoMapping
    /\ call = NoCall
    /\ poll = IdlePoll

NextMapper == MapItem

SpecMapper == InitMapper /\ [][NextMapper]_vars

\* the EN field, the ES field and the provider answer of each translated
\* field of the last mapped record
Translations ==
    { [en |-> mp.dc["Title (EN)"], es |-> mp.dc["Title (ES)"], r |-> mp.rt],
      [en |-> mp.dc["Creator (EN)"], es |-> mp.dc["Creator (ES)"],
       r |-> mp.rc],
      [en |-> mp.dc["Description (EN)"], es |-> mp.dc["Description (ES)"],
       r |-> mp.rd] }

\* C9: in every bilingual record, a field whose translation fails has
\* ES = EN, and an ES field is never empty when its EN field is not.
Orig_C9 ==
    mp.called =>
        \A f \in Translations :
            /\ (f.en # <<>> /\ ~f.r.ok) => f.es = f.en
            /\ f.en # <<>> => f.es # <<>>

\* C10: a title, creator or description that is a key of the
\* manual map has the mapped value as its ES field in the mapper's record,
\* whatever the provider returns.
Orig_C10 ==
    mp.called =>
        \A f \in Translations :
            f.en \in DOMAIN _MANUAL_MAP => f.es = _MANUAL_MAP[f.en]

(***************************************************************************)
(* validate_record of the mapper page, called with any record.             *)
(***************************************************************************)
\* every variable but call
CallRest == <<FetchVars, StoreVars, tr, mp, poll>>

\* the values of a field of a record handed to validate_record
ValidateValues == {<<>>, <<" ">>, <<"x">>, <<" ", "x", " ">>}

\* the records handed to validate_record: any of the required fields and
\* of one other field may be absent
ValidateRows ==
    UNION { [K -> ValidateValues] :
              K \in SUBSET {"Title (EN)", "Creator (EN)", "Description (EN)",
                            "Date", "Tags"} }

\* validate_record(dc_row) runs
ValidateRecord ==
    /\ call.fn = "validate_record" /\ ~call.done
    /\ call' = [call EXCEPT !.done = TRUE, !.out = validate_record(call.arg)]
    /\ UNCHANGED CallRest

InitValidate ==
    /\ now = 0
    /\ _token_cache = [token |-> None, expires_at |-> 0]
    /\ tokcall = NoTokCall
    /\ frames = NoFrames
    /\ op = IdleOp
    /\ raw_file = NoFile
    /\ log_file = NoLog
    /\ inv = [p \in Procs |-> IdleInv]
    /\ hist = NoHist
    /\ tr = NoTranslation
    /\ mp = NoMapping
    /\ poll = IdlePoll
    /\ call \in [fn : {"validate_record"}, arg : ValidateRows,
                 done : {FALSE}, out : {<<>>}]

NextValidate == ValidateRecord

SpecValidate == InitValidate /\ [][NextValidate]_vars

\* field f of row is absent, or empty once its spaces are trimmed
MissingIn(row, f) ==
    f \notin DOMAIN row \/ \A i \in 1..Len(row[f]) : row[f][i] = " "

\* C11: validate_record returns the fields among Title (EN), Creator (EN),
\* Description (EN) and Date, in that order, that are absent or empty after
\* trimming: all four when all are empty, none when none is, and never
\* another field.
Claim_C11 ==
    (call.fn = "validate_record" /\ call.done) =>
        LET four == <<"Title (EN)", "Creator (EN)", "Description (EN)",
                      "Date">>
        IN /\ call.out = SelectSeq(four, LAMBDA f : MissingIn(call.arg, f))
           /\ (\A i \in 1..4 : MissingIn(call.arg, four[i])) => call.out = four
           /\ (\A i \in 1..4 : ~MissingIn(call.arg, four[i]))
                 => call.out = <<>>
           /\ \A i \in 1..Len(call.out) : call.out[i] # "Tags"

\* C11's case: a record with an absent creator, a date of spaces only and
\* an empty field that is not required
Witness_C11 ==
    /\ call.fn = "validate_record" /\ call.done
    /\ "Creator (EN)" \notin DOMAIN call.arg
    /\ DOMAIN call.arg = {"Title (EN)", "Description (EN)", "Date", "Tags"}
    /\ call.arg["Date"] = <<" ">> /\ call.arg["Tags"] = <<>>
    /\ call.out = <<"Creator (EN)", "Date">>

(***************************************************************************)
(* The Generate button of the mapper page: the loaded records are mapped,  *)
(* and the records and the incomplete ones are written to two CSV files.   *)
(***************************************************************************)
MaxBatch == 2       \* records loaded by the mapper page

\* a CSV file of the mapper page that was not written
NoCsv == [written |-> FALSE, rows |-> <<>>]

\* a record of poll_items as the mapper page loads it
PolledRecord(id, title, creator, description) ==
    [id |-> id, date_added |-> <<"2", "0", "1", "9", "-", "0", "1", "-",
                                 "0", "1">>,
     title |-> title, creator |-> creator, description |-> description,
     tags |-> <<T_Book>>, media_urls |-> <<>>]

\* the records the page may have loaded
GenItems ==
    { UnifiedRecord(S_youtube, <<"a">>, T_Hi, T_Al, T_Fiction, T_2019,
                    <<T_Book>>, <<<<"i">>>>),
      UnifiedRecord(S_youtube, <<"b">>, <<>>, T_Al, T_Fiction, T_2019,
                    <<>>, <<>>),
      UnifiedRecord(S_spotify, <<"c">>, T_Hi, <<" ">>, <<>>, T_2019,
                    <<>>, <<>>),
      PolledRecord(<<"d">>, T_Hi, T_Al, T_Fiction) }

\* a loaded record with what the provider does for its three fields
GenInputs == [item : GenItems, r : {ProviderFailure, ProviderResult(T_Eh)}]

\* mapped = [map_to_dublin_core(i) for i in items]
Mapped(arg) ==
    [i \in 1..Len(arg) |->
        map_to_dublin_core(arg[i].item, arg[i].r, arg[i].r, arg[i].r)]

\* a mutant of Generate: a record with a missing field is left out
Generate_DropIncomplete(arg) ==
    LET mapped == SelectSeq(Mapped(arg),
                            LAMBDA row : row["Missing Fields"] = <<>>)
    IN [error |-> FALSE, mapped |-> mapped,
        dc_csv |-> [written |-> TRUE, rows |-> mapped],
        issues_csv |-> [written |-> TRUE, rows |-> <<>>]]

\* the handler of the Generate button.  A frame made of no record has no
\* column: df["Missing Fields"] raises KeyError, the handler reports the
\* error and writes no file.
Generate(arg) ==
    LET mapped == Mapped(arg)
        issues == SelectSeq(mapped, LAMBDA row : Truthy(row["Missing Fields"]))
    IN IF mapped = <<>>
       THEN [error |-> TRUE, mapped |-> mapped, dc_csv |-> NoCsv,
             issues_csv |-> NoCsv]
       ELSE [error |-> FALSE, mapped |-> mapped,
             dc_csv |-> [written |-> TRUE, rows |-> mapped],
             issues_csv |-> [written |-> TRUE, rows |-> issues]]

\* the Generate button is pressed
GenerateClick ==
    /\ call.fn = "generate" /\ ~call.done
    /\ call' = [call EXCEPT !.done = TRUE, !.out = Generate(call.arg)]
    /\ UNCHANGED CallRest

InitGenerate ==
    /\ now = 0
    /\ _token_cache = [token |-> None, expires_at |-> 0]
    /\ tokcall = NoTokCall
    /\ frames = NoFrames
    /\ op = IdleOp
    /\ raw_file = NoFile
    /\ log_file = NoLog
    /\ inv = [p \in Procs |-> IdleInv]
    /\ hist = NoHist
    /\ tr = NoTranslation
    /\ mp = NoMapping
    /\ poll = IdlePoll
    /\ call \in [fn : {"generate"}, arg : SeqsUpTo(GenInputs, MaxBatch),
                 done : {FALSE}, out : {<<>>}]

NextGenerate == GenerateClick

SpecGenerate == InitGenerate /\ [][NextGenerate]_vars

\* a required field of a bilingual record is empty after trimming
Incomplete(row) ==
    \E f \in {"Title (EN)", "Creator (EN)", "Description (EN)", "Date"} :
        MissingIn(row, f)

\* C12: mapping a batch of N loaded records yields N bilingual records in
\* the order of the input, whatever fields are missing or empty; a record
\* is in the issues output iff its Missing Fields is not empty, that is iff
\* one of its four required fields is empty after trimming.
Claim_C12 ==
    (call.fn = "generate" /\ call.done) =>
        LET rows == call.out.dc_csv.rows
            issues == call.out.issues_csv.rows
        IN /\ Len(rows) = Len(call.arg)
           /\ \A i \in 1..Len(rows) :
                /\ rows[i]["Identifier"] = call.arg[i].item.id
                /\ rows[i]["Title (EN)"] = call.arg[i].item.title
                /\ Truthy(rows[i]["Missing Fields"]) <=> Incomplete(rows[i])
           /\ issues = SelectSeq(rows, Incomplete)
           /\ Len(call.arg) > 0 => ~call.out.error

\* C12's case: a record of poll_items, which has no date, followed by a
\* complete record
Witness_C12 ==
    /\ call.fn = "generate" /\ call.done /\ Len(call.arg) = 2
    /\ call.arg[1].item.id = <<"d">> /\ call.arg[2].item.id = <<"a">>
    /\ Len(call.out.dc_csv.rows) = 2
    /\ Len(call.out.issues_csv.rows) = 1
    /\ call.out.issues_csv.rows[1]["Identifier"] = <<"d">>

(***************************************************************************)
(* automation/omeka_metadata_poller.py: poll_items.  Time is counted in    *)
(* days.  A list page is an array of items, an item carries an id and its  *)
(* "added" text, a detail document is a JSON object.                       *)
(***************************************************************************)
MaxPagesArg == 2    \* the largest max_pages poll_items is called with

PollNow == 3        \* datetime.now() when poll_items is called

\* "2024-01-0t", the date of day t as isoformat and strftime("%Y-%m-%d")
\* write it
IsoDay(t) ==
    <<"2", "0", "2", "4", "-", "0", "1", "-", "0",
      <<"0", "1", "2", "3", "4", "5", "6", "7", "8", "9">>[t + 1]>>

T_Midnight == <<"T", "0", "0", ":", "0", "0", ":", "0", "0">>

\* The "added" of an item: text is the string, kind and t what
\* datetime.fromisoformat makes of it: a timestamp with an offset (of day
\* t), a timestamp without offset, or a text that is no timestamp.

Aware(t) ==
    [kind |-> "aware", t |-> t,
     text |-> IsoDay(t) \o T_Midnight \o <<"+", "0", "0", ":", "0", "0">>]

Naive(t) == [kind |-> "naive", t |-> t, text |-> IsoDay(t) \o T_Midnight]

BadDate ==
    [kind |-> "bad", t |-> 0,
     text |-> <<"n", "o", "t", " ", "a", " ", "d", "a", "t", "e">>]

\* the items a list page may carry
PollItems ==
    { [id |-> 1, added |-> Aware(1)],
      [id |-> 2, added |-> Aware(2)],
      [id |-> 3, added |-> BadDate],
      [id |-> 4, added |-> Naive(2)] }

\* the list pages: up to two items
PollBatches ==
    {<<>>} \cup {<<i>> : i \in PollItems}
    \cup {q \in {<<i, j>> : i \in PollItems, j \in PollItems} : q[1] # q[2]}

\* what a request for a list page may do
ListResponses ==
    [kind : {"response"}, status : {200}, batch : PollBatches]
    \cup [kind : {"response"}, status : {500}, batch : {<<>>}]
    \cup [kind : {"exception"}, status : {0}, batch : {<<>>}]

\* the values of per_page poll_items is called with
PerPageArgs == {1, 2}

\* what a request for a list page with the parameter per_page may do: the
\* provider sends at most per_page items
ListAnswers(per_page) ==
    {r \in ListResponses : Len(r.batch) <= per_page}

T_Title == <<"T", "i", "t", "l", "e">>

T_creator == <<"c", "r", "e", "a", "t", "o", "r">>

\* a detail document
DetailDoc ==
    JObj([tags |-> JArr(<< JStr(T_Book), JObj([name |-> JStr(T_Fiction)]),
                           JNum >>),
          element_texts |->
              JArr(<< JObj([element |-> JObj([name |-> JStr(T_Title)]),
                            text |-> JStr(<<"<", "b", ">", "H", "i", " ">>)]),
                      JObj([element |-> JObj([name |-> JStr(T_creator)]),
                            text |-> JStr(T_Al)]),
                      JObj([element |-> JNull, text |-> JStr(<<"x">>)]) >>)])

\* a detail document whose tags and element_texts are null
NullTextsDoc == JObj([tags |-> JNull, element_texts |-> JNull])

\* what a request for the detail of an item may do
DetailResponses ==
    [kind : {"response"}, status : {200},
     data : {DetailDoc, NullTextsDoc, JObj(NoKeys)}]
    \cup [kind : {"response"}, status : {404}, data : {JNull}]
    \cup [kind : {"exception"}, status : {0}, data : {JNull}]

\* what a request for the files of an item may do
FilesResponses ==
    [kind : {"response"}, status : {200},
     data : { JArr(<< JObj([file_urls |-> JObj([original |-> JStr(<<"u">>)])]),
                      JObj([file_urls |-> JNull]) >>) }]
    \cup [kind : {"response"}, status : {404}, data : {JNull}]
    \cup [kind : {"exception"}, status : {0}, data : {JNull}]

\* clean_html(raw_html)
clean_html(raw_html) ==
    IF ~JTruthy(raw_html) THEN <<>> ELSE clean_text(PyStr(raw_html))

\* normalize_tags(raw_tags); the detail documents of the model carry an
\* array of tags or no tags
normalize_tags(raw_tags) ==
    IF ~JTruthy(raw_tags) \/ raw_tags.t # "arr" THEN <<>>
    ELSE LET kept == SelectSeq(raw_tags.v,
                         LAMBDA t : \/ t.t = "obj" /\ "name" \in DOMAIN t.v
                                    \/ t.t = "str")
         IN [i \in 1..Len(kept) |->
                IF kept[i].t = "obj" THEN Plain(kept[i].v["name"])
                ELSE kept[i].v]

\* a mutant of fetch_item_detail: a failed call is made a second time
fetch_item_detail_Retry(resp) ==
    [detail |-> IF resp.kind = "response" /\ resp.status = 200
                THEN resp.data ELSE JNull,
     requests |-> IF resp.kind = "response" /\ resp.status = 200
                  THEN 1 ELSE 2]

\* fetch_item_detail(item_id): the document, or None; requests counts the
\* requests it sent
fetch_item_detail(resp) ==
    [detail |-> IF resp.kind = "response" /\ resp.status = 200
                THEN resp.data ELSE JNull,
     requests |-> 1]

\* the urls fetch_item_files collects from the files of a 200 answer
RECURSIVE FileUrls(_)
FileUrls(files) ==
    IF files = <<>> THEN <<>>
    ELSE LET file_urls == JOr(DictGet(files[1], "file_urls", JNull).v,
                              JObj(NoKeys))
             orig == DictGet(file_urls, "original", JNull).v
         IN (IF JTruthy(orig) THEN <<Plain(orig)>> ELSE <<>>)
            \o FileUrls(Tail(files))

\* fetch_item_files(item): the original urls, [] when the call fails
fetch_item_files(resp) ==
    IF resp.kind = "response" /\ resp.status = 200 /\ resp.data.t = "arr"
    THEN FileUrls(resp.data.v)
    ELSE <<>>

\* the value the loop over element_texts leaves in meta[field]: that of
\* the last element of that name
RECURSIVE ElementText(_, _, _)
ElementText(elements, field, sofar) ==
    IF elements = <<>> THEN sofar
    ELSE LET e == elements[1]
             element == JOr(DictGet(e, "element", JNull).v, JObj(NoKeys))
             name == DictGet(element, "name", JStr(<<>>)).v
             text == clean_html(DictGet(e, "text", JStr(<<>>)).v)
         IN ElementText(Tail(elements), field,
                        IF name.t = "str" /\ Lower(name.v) = field
                        THEN text ELSE sofar)

\* the loop of the date-window pass iterates detail.get("element_texts", [])
\* as it is (line 119): a null there cannot be iterated and poll_items
\* raises TypeError; the fallback pass writes "or []" (line 162) and takes a
\* null for an empty list
ElementTextsRaise(detail) ==
    DictGet(detail, "element_texts", JArr(<<>>)).v.t = "null"

\* added_dt.strftime("%Y-%m-%d") of the date-window pass, where added_dt
\* was parsed from the "added" text
DateAdded(item) == IsoDay(item.added.t)

\* (item.get("added") or "")[:10] of the fallback pass
FallbackDateAdded(item) ==
    SubSeq(item.added.text, 1,
           IF Len(item.added.text) < 10 THEN Len(item.added.text) ELSE 10)

\* the record poll_items builds for an item, date_added being the date
\* text of the pass; the fallback pass builds the same keys
Meta(item, date_added, detail, media_urls) ==
    LET elements == DictGet(detail, "element_texts", JArr(<<>>)).v
        texts == IF elements.t = "arr" THEN elements.v ELSE <<>>
    IN [id |-> item.id,
        date_added |-> date_added,
        title |-> ElementText(texts, <<"t", "i", "t", "l", "e">>, <<>>),
        creator |-> ElementText(texts, T_creator, <<>>),
        description |->
            ElementText(texts, <<"d", "e", "s", "c", "r", "i", "p", "t", "i",
                                 "o", "n">>, <<>>),
        tags |-> normalize_tags(DictGet(detail, "tags", JNull).v),
        media_urls |-> media_urls]

\* what the loop did with an item of a visited page: detail is "skipped"
\* (no request), "raised" (no request: the comparison with the cutoff
\* raised), "failed" or "ok"; files is "none" (no request), "failed" or
\* "ok".  A detail "ok" with files "none" is the item at whose element_texts
\* the date-window pass raised.
Visit(item, detail, detail_requests, files, kept) ==
    [id |-> item.id, added |-> item.added, detail |-> detail,
     detail_requests |-> detail_requests, files |-> files, kept |-> kept]

\* poll_items(days, per_page, max_pages) is about to run
PollCall(days, per_page, max_pages) ==
    [pc |-> "start", days |-> days, per_page |-> per_page,
     max_pages |-> max_pages, cutoff |-> 0,
     page |-> 1, batch |-> <<>>, idx |-> 1, results |-> <<>>,
     list_requests |-> <<>>, stop |-> "none", visited |-> <<>>,
     fallback |-> FALSE, fb_request |-> "none", fb_visited |-> <<>>]

\* a mutant of PollItemStep: no detail is asked for an item older than the
\* cutoff
PollItemStep_NoDetailForOld(o, d, f) ==
    LET item == o.batch[o.idx]
        o1 == [o EXCEPT !.idx = @ + 1]
        got == fetch_item_detail(d)
        files_ok == f.kind = "response" /\ f.status = 200
        meta == Meta(item, DateAdded(item), got.detail,
                    fetch_item_files(f))
    IN IF item.added.kind = "bad"
       THEN [o1 EXCEPT !.visited = Append(@, Visit(item, "skipped", 0, "none",
                                                   FALSE))]
       ELSE IF item.added.kind = "naive"
       THEN [o EXCEPT !.pc = "raised",
                      !.visited = Append(@, Visit(item, "raised", 0, "none",
                                                  FALSE))]
       ELSE IF item.added.t < o.cutoff
       THEN [o1 EXCEPT !.visited = Append(@, Visit(item, "skipped", 0, "none",
                                                   FALSE))]
       ELSE IF ~JTruthy(got.detail)
       THEN [o1 EXCEPT !.visited = Append(@, Visit(item, "failed",
                                                   got.requests, "none", FALSE))]
       ELSE IF ElementTextsRaise(got.detail)
       THEN [o EXCEPT !.pc = "raised",
                      !.visited = Append(@, Visit(item, "ok", got.requests,
                                                  "none", FALSE))]
       ELSE [o1 EXCEPT !.results = Append(@, meta),
                       !.visited = Append(@, Visit(item, "ok", got.requests,
                                                   IF files_ok THEN "ok"
                                                   ELSE "failed", TRUE))]

\* a mutant of PollItemStep: the date window is not applied
PollItemStep_NoWindow(o, d, f) ==
    LET item == o.batch[o.idx]
        o1 == [o EXCEPT !.idx = @ + 1]
        got == fetch_item_detail(d)
        files_ok == f.kind = "response" /\ f.status = 200
        meta == Meta(item, DateAdded(item), got.detail,
                    fetch_item_files(f))
    IN IF item.added.kind = "bad"
       THEN [o1 EXCEPT !.visited = Append(@, Visit(item, "skipped", 0, "none",
                                                   FALSE))]
       ELSE IF item.added.kind = "naive"
       THEN [o EXCEPT !.pc = "raised",
                      !.visited = Append(@, Visit(item, "raised", 0, "none",
                                                  FALSE))]
       ELSE IF ~JTruthy(got.detail)
       THEN [o1 EXCEPT !.visited = Append(@, Visit(item, "failed",
                                                   got.requests, "none", FALSE))]
       ELSE IF ElementTextsRaise(got.detail)
       THEN [o EXCEPT !.pc = "raised",
                      !.visited = Append(@, Visit(item, "ok", got.requests,
                                                  "none", FALSE))]
       ELSE [o1 EXCEPT !.results = Append(@, meta),
                       !.visited = Append(@, Visit(item, "ok", got.requests,
                                                   IF files_ok THEN "ok"
                                                   ELSE "failed", TRUE))]

\* one iteration of the loop over the items of a page, the detail request
\* ending as d and the files request as f.  An "added" text that is no
\* timestamp skips the item before any request; a timestamp without offset
\* cannot be compared with the cutoff and poll_items raises TypeError at
\* line 100, before the detail request of the item; a detail document whose
\* element_texts is null raises TypeError at line 119, before the files
\* request.
PollItemStep(o, d, f) ==
    LET item == o.batch[o.idx]
        o1 == [o EXCEPT !.idx = @ + 1]
        got == fetch_item_detail(d)
        files_ok == f.kind = "response" /\ f.status = 200
        meta == Meta(item, DateAdded(item), got.detail,
                    fetch_item_files(f))
        kept == item.added.t >= o.cutoff
    IN IF item.added.kind = "bad"
       THEN [o1 EXCEPT !.visited = Append(@, Visit(item, "skipped", 0, "none",
                                                   FALSE))]
       ELSE IF item.added.kind = "naive"
       THEN [o EXCEPT !.pc = "raised",
                      !.visited = Append(@, Visit(item, "raised", 0, "none",
                                                  FALSE))]
       ELSE IF ~JTruthy(got.detail)
       THEN [o1 EXCEPT !.visited = Append(@, Visit(item, "failed",
                                                   got.requests, "none", FALSE))]
       ELSE IF ElementTextsRaise(got.detail)
       THEN [o EXCEPT !.pc = "raised",
                      !.visited = Append(@, Visit(item, "ok", got.requests,
                                                  "none", FALSE))]
       ELSE [o1 EXCEPT !.results = IF kept THEN Append(@, meta) ELSE @,
                       !.visited = Append(@, Visit(item, "ok", got.requests,
                                                   IF files_ok THEN "ok"
                                                   ELSE "failed", kept))]

\* a mutant of FallbackItemStep: the fallback pass applies the date window
FallbackItemStep_Windowed(o, d, f) ==
    LET item == o.batch[o.idx]
        o1 == [o EXCEPT !.idx = @ + 1]
        got == fetch_item_detail(d)
        files_ok == f.kind = "response" /\ f.status = 200
        meta == Meta(item, FallbackDateAdded(item), got.detail,
                    fetch_item_files(f))
        kept == item.added.kind = "aware" /\ item.added.t >= o.cutoff
    IN IF ~JTruthy(got.detail)
       THEN [o1 EXCEPT !.fb_visited = Append(@, Visit(item, "failed",
                                                      got.requests, "none",
                                                      FALSE))]
       ELSE [o1 EXCEPT !.results = IF kept THEN Append(@, meta) ELSE @,
                       !.fb_visited = Append(@, Visit(item, "ok", got.requests,
                                                      IF files_ok THEN "ok"
                                                      ELSE "failed", kept))]

\* one iteration of the loop of the fallback pass: no date is looked at
FallbackItemStep(o, d, f) ==
    LET item == o.batch[o.idx]
        o1 == [o EXCEPT !.idx = @ + 1]
        got == fetch_item_detail(d)
        files_ok == f.kind = "response" /\ f.status = 200
        meta == Meta(item, FallbackDateAdded(item), got.detail,
                    fetch_item_files(f))
    IN IF ~JTruthy(got.detail)
       THEN [o1 EXCEPT !.fb_visited = Append(@, Visit(item, "failed",
                                                      got.requests, "none",
                                                      FALSE))]
       ELSE [o1 EXCEPT !.results = Append(@, meta),
                       !.fb_visited = Append(@, Visit(item, "ok", got.requests,
                                                      IF files_ok THEN "ok"
                                                      ELSE "failed", TRUE))]

\* the request of the fallback pass for page 1 and the test of its status:
\* an answer that is not 200 leaves the results empty
FallbackListStep(o, resp) ==
    LET o1 == [o EXCEPT !.fallback = TRUE] IN
    IF resp.kind = "exception"
    THEN [o1 EXCEPT !.pc = "raised", !.fb_request = "raised"]
    ELSE IF resp.status # 200
    THEN [o1 EXCEPT !.pc = "returned", !.fb_request = "status"]
    ELSE [o1 EXCEPT !.pc = "fb_items", !.fb_request = "page",
                    !.batch = resp.batch, !.idx = 1]

\* a request of the loop for a list page, and what came back: "raised",
\* "status" (not 200), "empty" or "items"
ListRequest(page, resp) ==
    [page |-> page,
     outcome |-> IF resp.kind = "exception" THEN "raised"
                 ELSE IF resp.status # 200 THEN "status"
                 ELSE IF resp.batch = <<>> THEN "empty"
                 ELSE "items"]

\* a mutant of ListPageStep: an empty page does not end the loop
ListPageStep_PastEmpty(o, resp) ==
    LET o1 == [o EXCEPT !.list_requests = Append(@, ListRequest(o.page, resp))]
    IN
    IF resp.kind = "exception" THEN [o1 EXCEPT !.pc = "raised"]
    ELSE IF resp.status # 200 THEN [o1 EXCEPT !.pc = "after", !.stop = "status"]
    ELSE [o1 EXCEPT !.pc = "items", !.batch = resp.batch, !.idx = 1]

\* the request for page o.page and the tests that follow it
ListPageStep(o, resp) ==
    LET o1 == [o EXCEPT !.list_requests = Append(@, ListRequest(o.page, resp))]
    IN
    IF resp.kind = "exception" THEN [o1 EXCEPT !.pc = "raised"]
    ELSE IF resp.status # 200 THEN [o1 EXCEPT !.pc = "after", !.stop = "status"]
    ELSE IF resp.batch = <<>> THEN [o1 EXCEPT !.pc = "after", !.stop = "empty"]
    ELSE [o1 EXCEPT !.pc = "items", !.batch = resp.batch, !.idx = 1]

\* poll_items starts: the cutoff is computed
PollStart ==
    /\ poll.pc = "start"
    /\ poll' = [poll EXCEPT !.pc = "loop", !.cutoff = now - poll.days]
    /\ UNCHANGED PollRest

\* while page <= max_pages: the next list page is requested
PollListPage ==
    /\ poll.pc = "loop" /\ poll.page <= poll.max_pages
    /\ \E resp \in ListAnswers(poll.per_page) :
          poll' = ListPageStep(poll, resp)
    /\ UNCHANGED PollRest

\* the loop ends at the page ceiling
PollCeiling ==
    /\ poll.pc = "loop" /\ poll.page > poll.max_pages
    /\ poll' = [poll EXCEPT !.pc = "after", !.stop = "ceiling"]
    /\ UNCHANGED PollRest

\* the next item of the page
PollItem ==
    /\ poll.pc = "items" /\ poll.idx <= Len(poll.batch)
    /\ \E d \in DetailResponses, f \in FilesResponses :
          poll' = PollItemStep(poll, d, f)
    /\ UNCHANGED PollRest

\* the page is done: page += 1
PollPageEnd ==
    /\ poll.pc = "items" /\ poll.idx > Len(poll.batch)
    /\ poll' = [poll EXCEPT !.pc = "loop", !.page = @ + 1, !.batch = <<>>,
                            !.idx = 1]
    /\ UNCHANGED PollRest

\* nothing recent: the first page is requested again
PollFallbackList ==
    /\ poll.pc = "after" /\ poll.results = <<>>
    /\ \E resp \in ListAnswers(poll.per_page) :
          poll' = FallbackListStep(poll, resp)
    /\ UNCHANGED PollRest

\* the next item of the fallback page
PollFallbackItem ==
    /\ poll.pc = "fb_items" /\ poll.idx <= Len(poll.batch)
    /\ \E d \in DetailResponses, f \in FilesResponses :
          poll' = FallbackItemStep(poll, d, f)
    /\ UNCHANGED PollRest

\* return results
PollReturn ==
    /\ \/ poll.pc = "after" /\ poll.results # <<>>
       \/ poll.pc = "fb_items" /\ poll.idx > Len(poll.batch)
    /\ poll' = [poll EXCEPT !.pc = "returned"]
    /\ UNCHANGED PollRest

InitPoll ==
    /\ now = PollNow
    /\ _token_cache = [token |-> None, expires_at |-> 0]
    /\ tokcall = NoTokCall
    /\ frames = NoFrames
    /\ op = IdleOp
    /\ raw_file = NoFile
    /\ log_file = NoLog
    /\ inv = [p \in Procs |-> IdleInv]
    /\ hist = NoHist
    /\ tr = NoTranslation
    /\ mp = NoMapping
    /\ call = NoCall
    /\ poll \in {PollCall(days, per_page, max_pages) :
                    days \in {1, 2}, per_page \in PerPageArgs,
                    max_pages \in 1..MaxPagesArg}

NextPoll ==
    \/ PollStart
    \/ PollListPage
    \/ PollCeiling
    \/ PollItem
    \/ PollPageEnd
    \/ PollFallbackList
    \/ PollFallbackItem
    \/ PollReturn

\* every request has a timeout and every loop is over a finite list: a
\* step that can be taken is taken
SpecPoll == InitPoll /\ [][NextPoll]_vars /\ WF_vars(NextPoll)

\* the Unified Record keys
UnifiedKeys ==
    {"source", "id", "title", "creator", "description", "date", "tags",
     "media_urls"}

\* C13: every record a source adapter emits, those of poll_items included,
\* carries all the Unified Record keys source, id, title, creator,
\* description, date, tags and media_urls.
Orig_C13 ==
    \A i \in 1..Len(poll.results) : UnifiedKeys \subseteq DOMAIN poll.results[i]

\* the ids of a sequence of items, visits or records
Ids(q) == [i \in 1..Len(q) |-> q[i].id]

\* the visits of the pass that made the results
PassVisits == IF poll.fallback THEN poll.fb_visited ELSE poll.visited

\* while a page is gone through, the items before the current one have
\* been dealt with, one visit each and in the order of the page
PageInOrder ==
    poll.pc \in {"items", "fb_items"} =>
        /\ Len(PassVisits) >= poll.idx - 1
        /\ Ids(SubSeq(PassVisits, Len(PassVisits) - (poll.idx - 1) + 1,
                      Len(PassVisits)))
             = Ids(SubSeq(poll.batch, 1, poll.idx - 1))

\* the visits of both passes
AllVisits == poll.visited \o poll.fb_visited

\* C17 as stated: an item whose detail call or whose files call fails is
\* skipped: it is not in the returned list, it is not retried, and the next
\* item is processed.
Orig_C17 ==
    poll.pc # "idle" =>
        /\ \A i \in 1..Len(AllVisits) :
              LET v == AllVisits[i] IN
              (v.detail = "failed" \/ v.files = "failed") =>
                  /\ ~v.kept /\ v.detail_requests = 1
                  /\ \A k \in 1..Len(poll.results) : poll.results[k].id # v.id
        /\ Ids(poll.results) = Ids(SelectSeq(PassVisits, LAMBDA v : v.kept))
        /\ PageInOrder

\* C17 as amended: within a pass an item whose detail call fails is
\* skipped: the pass makes one detail request and no files request for it,
\* adds no record for it, and goes on with the next item; an item whose
\* files call fails is not skipped: it is kept with an empty media_urls, in
\* the date-window pass if it is within the window and in the fallback pass
\* always.  The skip holds for the pass only: the fallback pass, which runs
\* when the date-window pass kept nothing, makes its own detail request for
\* every item of page 1, those whose detail call failed before included,
\* and returns the items for which that request succeeds.
Claim_C17 ==
    poll.pc # "idle" =>
        LET kept == SelectSeq(PassVisits, LAMBDA v : v.kept) IN
        /\ \A i \in 1..Len(AllVisits) :
              LET v == AllVisits[i] IN
              /\ v.detail = "failed" =>
                    ~v.kept /\ v.detail_requests = 1 /\ v.files = "none"
              /\ (v.files = "failed"
                    /\ (i > Len(poll.visited) \/ v.added.t >= poll.cutoff))
                    => v.kept
        /\ poll.fallback =>
              /\ \A i \in 1..Len(poll.visited) : ~poll.visited[i].kept
              /\ \A i \in 1..Len(poll.fb_visited) :
                    LET v == poll.fb_visited[i] IN
                    /\ v.detail \in {"ok", "failed"}
                    /\ v.detail_requests = 1
                    /\ v.kept <=> v.detail = "ok"
        /\ ~poll.fallback => poll.fb_visited = <<>>
        /\ Ids(poll.results) = Ids(kept)
        /\ \A i \in 1..Len(kept) :
              kept[i].files = "failed" => poll.results[i].media_urls = <<>>
        /\ PageInOrder

\* C17's case: a page whose first item failed at the detail call and whose
\* second item, its files call failed, is returned
Witness_C17 ==
    /\ poll.pc = "returned" /\ ~poll.fallback
    /\ Len(poll.visited) = 2
    /\ poll.visited[1].detail = "failed"
    /\ poll.visited[2].files = "failed" /\ poll.visited[2].kept
    /\ Ids(poll.results) = <<poll.visited[2].id>>

\* the detail call of an item failed in the date-window pass, which kept
\* nothing; the fallback pass asked for its detail again and returned it
AskedAgainByFallback ==
    /\ poll.pc = "returned" /\ poll.fallback
    /\ \E i \in 1..Len(poll.visited), j \in 1..Len(poll.fb_visited) :
          /\ poll.visited[i].detail = "failed"
          /\ poll.fb_visited[j].id = poll.visited[i].id
          /\ poll.fb_visited[j].detail = "ok" /\ poll.fb_visited[j].kept
          /\ \E k \in 1..Len(poll.results) :
                poll.results[k].id = poll.visited[i].id

\* the loop asked for pages 1, 2, 3, ... and never for more than max_pages;
\* only the last page asked for may be empty or not a 200 answer
PagesInOrder ==
    poll.pc # "idle" =>
        /\ Len(poll.list_requests) <= poll.max_pages
        /\ \A i \in 1..Len(poll.list_requests) :
              /\ poll.list_requests[i].page = i
              /\ i < Len(poll.list_requests)
                    => poll.list_requests[i].outcome = "items"

\* C18: poll_items always terminates; its loop asks for the list pages 1,
\* 2, 3, ... in order, stops at the first page that is empty or not a 200
\* answer, and asks for at most max_pages pages.
Claim_C18 == []PagesInOrder /\ <>(poll.pc \in {"returned", "raised"})

\* C18's case: the loop went to the page ceiling, every page had items
Witness_C18 ==
    /\ poll.pc = "returned" /\ poll.stop = "ceiling"
    /\ poll.max_pages = MaxPagesArg
    /\ Len(poll.list_requests) = poll.max_pages

\* the visits of the date-window pass that the window keeps
InWindow(v) ==
    v.added.kind = "aware" /\ v.added.t >= poll.cutoff /\ v.detail = "ok"

\* C19: when the date-window pass yields a result, the returned list is
\* made of the items of the visited pages that are not older than the
\* cutoff and whose detail was fetched, in page order; no older item is
\* returned.
Claim_C19 ==
    (poll.pc = "returned" /\ ~poll.fallback) =>
        /\ poll.results # <<>>
        /\ Ids(poll.results) = Ids(SelectSeq(poll.visited, InWindow))
        /\ \A i \in 1..Len(poll.visited) :
              poll.visited[i].added.t < poll.cutoff => ~poll.visited[i].kept

\* C19's case: of two pages, an item at the cutoff and a later one are
\* returned in page order, an older one whose detail was fetched is not
Witness_C19 ==
    /\ poll.pc = "returned" /\ ~poll.fallback
    /\ Len(poll.list_requests) >= 2 /\ Len(poll.results) = 2
    /\ \E i \in 1..Len(poll.visited) :
          /\ poll.visited[i].added.kind = "aware"
          /\ poll.visited[i].added.t < poll.cutoff
          /\ poll.visited[i].detail = "ok"
    /\ \E i \in 1..Len(poll.visited) :
          poll.visited[i].kept /\ poll.visited[i].added.t = poll.cutoff

\* C20 as stated: in the date-window pass a detail request is made for
\* every item of every visited page.
Orig_C20 ==
    poll.pc # "idle" =>
        /\ \A i \in 1..Len(poll.visited) :
              poll.visited[i].detail_requests >= 1
        /\ ~poll.fallback => PageInOrder

\* C20 as amended: the date-window pass goes through the items of a
\* visited page in order and makes one detail request for every item it
\* reaches whose "added" text is a timestamp with an offset, those older
\* than the cutoff included; an item whose "added" text is no timestamp is
\* passed over without a request.  The pass does not reach every item: at
\* an item whose "added" text is a timestamp without offset the comparison
\* with the cutoff raises, before any request for it, and at an item whose
\* detail document has a null element_texts the loop over them raises,
\* after the detail request and before the files request; poll_items ends
\* with that error, no request is made for any item after it, and there is
\* no fallback pass.
Claim_C20 ==
    poll.pc # "idle" =>
        /\ \A i \in 1..Len(poll.visited) :
              LET v == poll.visited[i] IN
              /\ v.added.kind = "aware" =>
                    v.detail_requests = 1 /\ v.detail \in {"ok", "failed"}
              /\ v.added.kind = "bad" =>
                    v.detail_requests = 0 /\ v.detail = "skipped" /\ ~v.kept
              /\ v.added.kind = "naive" =>
                    /\ v.detail_requests = 0 /\ v.detail = "raised"
                    /\ v.files = "none" /\ ~v.kept
              /\ (v.detail = "ok" /\ v.files = "none") =>
                    v.detail_requests = 1 /\ ~v.kept
              /\ (v.detail = "raised" \/ (v.detail = "ok" /\ v.files = "none"))
                    => /\ i = Len(poll.visited)
                       /\ poll.pc = "raised" /\ ~poll.fallback
                       /\ poll.fb_visited = <<>>
                       /\ poll.batch[poll.idx].id = v.id
              /\ (v.detail = "ok" /\ v.files # "none") =>
                    v.kept <=> v.added.t >= poll.cutoff
        /\ ~poll.fallback => PageInOrder

\* C20's case: the detail and the files of an item older than the cutoff
\* were fetched and the item was left out
Witness_C20 ==
    /\ poll.pc = "returned"
    /\ \E i \in 1..Len(poll.visited) :
          LET v == poll.visited[i] IN
          /\ v.added.kind = "aware" /\ v.added.t < poll.cutoff
          /\ v.detail = "ok" /\ v.detail_requests = 1 /\ v.files = "ok"
          /\ ~v.kept

\* a page of two items, the first with a timestamp without offset:
\* poll_items raised at the first and asked nothing for the second
RaisedAtNaive ==
    /\ poll.pc = "raised"
    /\ Len(poll.batch) = 2 /\ poll.idx = 1
    /\ poll.batch[1].added.kind = "naive"
    /\ poll.batch[2].added.kind = "aware"
    /\ Len(poll.visited) = 1 /\ poll.visited[1].detail = "raised"

\* a page of two items, the detail document of the first with a null
\* element_texts: poll_items raised after that detail request, asked for no
\* files and asked nothing for the second
RaisedAtElements ==
    /\ poll.pc = "raised" /\ ~poll.fallback
    /\ Len(poll.batch) = 2 /\ poll.idx = 1
    /\ poll.batch[1].added.kind = "aware"
    /\ Len(poll.visited) = 1
    /\ poll.visited[1].detail = "ok" /\ poll.visited[1].detail_requests = 1
    /\ poll.visited[1].files = "none"

\* the fallback pass took a null element_texts for an empty list and
\* returned the item with empty texts
NullTextsInFallback ==
    /\ poll.pc = "returned" /\ poll.fallback
    /\ \E i \in 1..Len(poll.results) :
          poll.results[i].title = <<>> /\ poll.results[i].tags = <<>>

\* the date-window pass of a call that has returned kept nothing
NothingRecent == \A i \in 1..Len(poll.visited) : ~poll.visited[i].kept

\* C21 as stated: whenever the date-window filter of poll_items yields zero
\* results, poll_items returns the first page unfiltered by date, and the
\* list the caller receives is non-empty.
Orig_C21 ==
    (poll.pc = "returned" /\ NothingRecent) =>
        /\ poll.fallback
        /\ poll.results # <<>>

\* C21 as amended: the fallback pass runs exactly when the date-window pass
\* yields zero results; it asks for page 1 once more and, on a 200 answer,
\* returns the items of that page whose detail was fetched, in page order
\* and whatever their date; on any other answer, or when that page is empty
\* or no detail was fetched, the caller receives the empty list.
Claim_C21 ==
    poll.pc = "returned" =>
        /\ poll.fallback <=> NothingRecent
        /\ poll.fallback =>
              /\ poll.fb_request \in {"status", "page"}
              /\ poll.fb_request = "status" =>
                    poll.results = <<>> /\ poll.fb_visited = <<>>
              /\ poll.fb_request = "page" =>
                    /\ Ids(poll.fb_visited) = Ids(poll.batch)
                    /\ Ids(poll.results)
                         = Ids(SelectSeq(poll.fb_visited,
                                         LAMBDA v : v.detail = "ok"))

\* C21's case: the date-window pass kept nothing and the fallback pass
\* returned an item older than the cutoff
Witness_C21 ==
    /\ poll.pc = "returned" /\ poll.fallback /\ NothingRecent
    /\ poll.visited # <<>>
    /\ poll.results # <<>>
    /\ \E i \in 1..Len(poll.fb_visited) :
          LET v == poll.fb_visited[i] IN
          v.kept /\ v.added.kind = "aware" /\ v.added.t < poll.cutoff

\* the fallback pass returns an item whose "added" is no timestamp: its
\* date_added is the first ten characters of that text
FallbackKeepsText ==
    /\ poll.pc = "returned" /\ poll.fallback
    /\ \E i \in 1..Len(poll.results) :
          /\ poll.results[i].id = 3
          /\ poll.results[i].date_added = BadDate.text

\* C28: the number of items returned to the Social Media Metadata Poller
\* page never exceeds the value the user chose for "Maximum number of
\* items to fetch" (the value passed to poll_items as per_page), for every
\* sequence of provider pages.
Orig_C28 ==
    poll.pc = "returned" => Len(poll.results) <= poll.per_page

\* what does hold: no more items are returned than the pages that were
\* asked for can carry, per_page items each
WithinPagesAsked ==
    poll.pc # "idle" =>
        /\ Len(poll.results) <= poll.per_page * poll.max_pages
        /\ ~poll.fallback =>
              Len(poll.results) <= poll.per_page * Len(poll.list_requests)
        /\ poll.fallback => Len(poll.results) <= poll.per_page

(***************************************************************************)
(* clean_worldcat_data called with any payload, and the WorldCat tab of    *)
(* the aggregator page going through one row of the uploaded CSV.          *)
(***************************************************************************)
\* a key a payload does not have
Absent == [t |-> "absent", v |-> <<>>]

T_Pub == <<"P", "u", "b">>

T_Print == <<"P", "r", "i", "n", "t">>

T_eng == <<"e", "n", "g">>

\* a payload with every path: what each top-level key holds
FullTitle == JObj([mainTitles |-> JArr(<< JObj([text |-> JStr(T_Hi)]) >>)])

FullContributor == JObj([creators |-> JArr(<< JObj([name |-> JStr(T_Al)]) >>)])

FullSubjects ==
    JArr(<< JObj([subjectName |-> JObj([text |-> JStr(T_Book)])]),
            JObj([label |-> JStr(T_Fiction)]) >>)

FullPublishers ==
    JArr(<< JObj([publisherName |-> JObj([text |-> JStr(T_Pub)])]) >>)

FullDescription == JObj([physicalDescription |-> JStr(T_Hi)])

FullFormat == JObj([generalFormat |-> JStr(T_Print)])

FullDate == JObj([publicationDate |-> JStr(T_2019)])

FullLanguage == JObj([itemLanguage |-> JStr(T_eng)])

\* what a payload may hold under each key: the full value, nothing, or a
\* value that lacks a level or has another type
TitleOpts ==
    {Absent, FullTitle, JObj([mainTitles |-> JArr(<<>>)]), JStr(<<"x">>)}

ContributorOpts ==
    {Absent, FullContributor,
     JObj([creators |->
              JArr(<< JObj([firstName |-> JObj([text |-> JStr(T_Al)])]) >>)]),
     JObj([creators |-> JNull]),
     JObj([creators |-> JArr(<< JObj([firstName |-> JNull]) >>)])}

SubjectsOpts ==
    {Absent, FullSubjects, JNull,
     JArr(<< JObj([label |-> JNum]) >>),
     JArr(<< JObj([label |-> JStr(T_Fiction)]), JStr(<<"x">>) >>)}

PublishersOpts == {Absent, FullPublishers, JArr(<<>>)}

DescriptionOpts ==
    {Absent, FullDescription, JObj([abstract |-> JStr(T_Al)]), JStr(<<"x">>)}

FormatOpts == {Absent, FullFormat}

DateOpts == {Absent, FullDate, JObj([publicationDate |-> JNull])}

LanguageOpts == {Absent, FullLanguage}

\* the payload that holds o[k] under each key k whose o[k] is not Absent
Payload(o) ==
    JObj([k \in {k \in DOMAIN o : o[k] # Absent} |-> o[k]])

Payloads ==
    { Payload([title |-> t, contributor |-> c, subjects |-> s,
               publishers |-> pu, description |-> de, format |-> f,
               date |-> d, language |-> l]) :
        t \in TitleOpts, c \in ContributorOpts, s \in SubjectsOpts,
        pu \in PublishersOpts, de \in DescriptionOpts, f \in FormatOpts,
        d \in DateOpts, l \in LanguageOpts }

T_1 == <<"1">>

\* clean_worldcat_data(data, oclc_number) is called
CleanCall ==
    /\ call.fn = "clean_worldcat_data" /\ ~call.done
    /\ call' = [call EXCEPT
                  !.done = TRUE,
                  !.out = IF clean_worldcat_data_raises(call.arg.data)
                          THEN [raised |-> TRUE, value |-> <<>>]
                          ELSE [raised |-> FALSE,
                                value |-> clean_worldcat_data(
                                              call.arg.data,
                                              call.arg.oclc_number,
                                              call.arg.p)]]
    /\ UNCHANGED CallRest

\* the parameters clean_worldcat_data requires, and the arguments the
\* WorldCat tab passes to it
CleanParams == 2

TabCleanArgs == 1


\* [t.strip() for t in text.split(";") if t.strip()]
RECURSIVE SplitStrip(_, _)
SplitStrip(text, part) ==
    IF text = <<>>
    THEN IF Truthy(Strip(part)) THEN <<Strip(part)>> ELSE <<>>
    ELSE IF Head(text) = ";"
    THEN (IF Truthy(Strip(part)) THEN <<Strip(part)>> ELSE <<>>)
         \o SplitStrip(Tail(text), <<>>)
    ELSE SplitStrip(Tail(text), Append(part, Head(text)))

\* the row the WorldCat tab makes of a cleaned record
WorldCatRow(cleaned, oclc) ==
    [source |-> S_worldcat,
     id |-> PyOr(Get(cleaned, "Identifier", <<>>), oclc),
     title |-> PyOr(Get(cleaned, "Title", <<>>), <<>>),
     creator |-> PyOr(Get(cleaned, "Creator", <<>>), <<>>),
     description |-> PyOr(Get(cleaned, "Description", <<>>), <<>>),
     date |-> PyOr(Get(cleaned, "Date", <<>>), <<>>),
     tags |-> SplitStrip(PyOr(Get(cleaned, "Subject (EN)", <<>>), <<>>), <<>>),
     media_urls |-> <<>>]

\* one row of the uploaded CSV in the WorldCat tab.  clean_worldcat_data
\* is called with the payload alone, one argument short: the call raises
\* TypeError, which the tab reports as a warning for that row.
WorldCatTabStep(oclc_cell, resp, p) ==
    LET oclc == Strip(oclc_cell)
        raw == fetch_worldcat_data(resp)
    IN IF ~Truthy(oclc) THEN [rows |-> <<>>, warnings |-> <<>>]
       ELSE IF resp.kind = "exception"
       THEN [rows |-> <<>>, warnings |-> <<oclc>>]
       ELSE IF ~JTruthy(raw) THEN [rows |-> <<>>, warnings |-> <<>>]
       ELSE IF TabCleanArgs # CleanParams
       THEN [rows |-> <<>>, warnings |-> <<oclc>>]
       ELSE IF clean_worldcat_data_raises(raw)
       THEN [rows |-> <<>>, warnings |-> <<oclc>>]
       ELSE [rows |-> <<WorldCatRow(clean_worldcat_data(raw, oclc, p), oclc)>>,
             warnings |-> <<>>]

\* the payloads a lookup of the tab may return
TabPayloads ==
    { Payload([title |-> t, contributor |-> c, subjects |-> s]) :
        t \in {Absent, FullTitle}, c \in {Absent, FullContributor},
        s \in {Absent, JArr(<< JObj([subjectName |->
                                        JObj([text |-> JStr(T_Book)])]) >>)} }

TabResponses ==
    [kind : {"response"}, status : {200}, data : TabPayloads]
    \cup [kind : {"response"}, status : {404}, data : {JNull}]
    \cup [kind : {"exception"}, status : {0}, data : {JNull}]

\* the WorldCat tab goes through a row of the CSV
WorldCatTabRow ==
    /\ call.fn = "worldcat_tab" /\ ~call.done
    /\ call' = [call EXCEPT
                  !.done = TRUE,
                  !.out = WorldCatTabStep(call.arg.oclc, call.arg.resp,
                                          call.arg.p)]
    /\ UNCHANGED CallRest

InitWorldCat ==
    /\ now = 0
    /\ _token_cache = [token |-> None, expires_at |-> 0]
    /\ tokcall = NoTokCall
    /\ frames = NoFrames
    /\ op = IdleOp
    /\ raw_file = NoFile
    /\ log_file = NoLog
    /\ inv = [p \in Procs |-> IdleInv]
    /\ hist = NoHist
    /\ tr = NoTranslation
    /\ mp = NoMapping
    /\ poll = IdlePoll
    /\ call \in [fn : {"clean_worldcat_data"},
                 arg : [data : Payloads, oclc_number : {T_1},
                        p : LoopProviders],
                 done : {FALSE}, out : {<<>>}]
                \cup [fn : {"worldcat_tab"},
                      arg : [oclc : Cells, resp : TabResponses,
                             p : LoopProviders],
                      done : {FALSE}, out : {<<>>}]

NextWorldCat == CleanCall \/ WorldCatTabRow

SpecWorldCat == InitWorldCat /\ [][NextWorldCat]_vars

\* C14: the WorldCat tab, given a payload with title T, creator C and one
\* subject S, emits one Unified Record with title T, creator C, tags [S]
\* and empty description, date and media_urls.
Orig_C14 ==
    (/\ call.fn = "worldcat_tab" /\ call.done
     /\ Truthy(Strip(call.arg.oclc))
     /\ call.arg.resp.kind = "response" /\ call.arg.resp.status = 200
     /\ DOMAIN call.arg.resp.data.v = {"title", "contributor", "subjects"})
    => /\ Len(call.out.rows) = 1
       /\ call.out.rows[1].title = T_Hi
       /\ call.out.rows[1].creator = T_Al
       /\ call.out.rows[1].tags = <<T_Book>>
       /\ call.out.rows[1].description = <<>>
       /\ call.out.rows[1].date = <<>>
       /\ call.out.rows[1].media_urls = <<>>

\* a top-level key of the payload, the fields clean_worldcat_data makes of
\* it, and their values for the full payload
PathFields ==
    { [key |-> "title", full |-> FullTitle,
       fields |-> [f \in {"Title (English)"} |-> T_Hi]],
      [key |-> "contributor", full |-> FullContributor,
       fields |-> [f \in {"Author (English)"} |-> T_Al]],
      [key |-> "subjects", full |-> FullSubjects,
       fields |-> [f \in {"Subjects (English)"} |->
                     T_Book \o <<";", " ">> \o T_Fiction]],
      [key |-> "publishers", full |-> FullPublishers,
       fields |-> [f \in {"Publisher (English)"} |-> T_Pub]],
      [key |-> "description", full |-> FullDescription,
       fields |-> [f \in {"Description (English)"} |-> T_Hi]],
      [key |-> "format", full |-> FullFormat,
       fields |-> [f \in {"Format (English)"} |-> T_Print]],
      [key |-> "date", full |-> FullDate,
       fields |-> [f \in {"Date"} |-> T_2019]],
      [key |-> "language", full |-> FullLanguage,
       fields |-> [f \in {"Language (English)"} |-> T_eng]] }

\* the fields of the missing paths are empty, the others are extracted
Degraded(data, value) ==
    \A pf \in PathFields : \A f \in DOMAIN pf.fields :
        /\ pf.key \notin DOMAIN data.v => value[f] = <<>>
        /\ (pf.key \in DOMAIN data.v /\ data.v[pf.key] = pf.full)
              => value[f] = pf.fields[f]

\* C15: clean_worldcat_data never raises on a payload with missing or
\* malformed nested structure; the field of every missing path is the empty
\* string and every other field is still extracted.
Orig_C15 ==
    (call.fn = "clean_worldcat_data" /\ call.done) =>
        /\ ~call.out.raised
        /\ Degraded(call.arg.data, call.out.value)

\* what does hold of clean_worldcat_data: it raises only on a subject whose
\* name is no string, and otherwise degrades field by field
CleanDegrades ==
    (call.fn = "clean_worldcat_data" /\ call.done) =>
        IF call.out.raised
        THEN /\ "subjects" \in DOMAIN call.arg.data.v
             /\ call.arg.data.v["subjects"] = JArr(<< JObj([label |-> JNum]) >>)
        ELSE Degraded(call.arg.data, call.out.value)

(***************************************************************************)
(* One URL of the YouTube or the Spotify tab, against any oEmbed answer.   *)
(***************************************************************************)
\* a key an oEmbed document does not have
NoValue == <<"#absent">>

OembedTitles ==
    {NoValue, T_Hi, <<"<", "b", ">", "H", "i", " ">>,
     <<"a", "&", "a", "m", "p", ";", "b">>}

OembedAuthors == {NoValue, <<>>, T_Al, <<" ">> \o T_Al}

OembedThumbnails == {NoValue, <<>>, <<"u">>}

\* the document that holds o[k] under each key k whose o[k] is a value
OembedDoc(o) == [k \in {k \in DOMAIN o : o[k] # NoValue} |-> o[k]]

\* what the oEmbed endpoint may do for a URL
OembedAnswers ==
    [kind : {"response"}, status : {200},
     data : { OembedDoc([title |-> t, author_name |-> a, thumbnail_url |-> u]) :
                t \in OembedTitles, a \in OembedAuthors,
                u \in OembedThumbnails }]
    \cup [kind : {"response"}, status : {404, 500}, data : {<<>>}]
    \cup [kind : {"exception"}, status : {0}, data : {<<>>}]

\* a tab goes through one URL of its text area
OembedUrl ==
    /\ call.fn = "oembed_url" /\ ~call.done
    /\ call' =
         [call EXCEPT
            !.done = TRUE,
            !.out = OembedRowStep([IdleOp EXCEPT !.kind = call.arg.kind,
                                                 !.pc = "loop",
                                                 !.inputs = <<call.arg.url>>],
                                  call.arg.resp, 0)]
    /\ UNCHANGED CallRest

InitOembed ==
    /\ now = 0
    /\ _token_cache = [token |-> None, expires_at |-> 0]
    /\ tokcall = NoTokCall
    /\ frames = NoFrames
    /\ op = IdleOp
    /\ raw_file = NoFile
    /\ log_file = NoLog
    /\ inv = [p \in Procs |-> IdleInv]
    /\ hist = NoHist
    /\ tr = NoTranslation
    /\ mp = NoMapping
    /\ poll = IdlePoll
    /\ call \in [fn : {"oembed_url"},
                 arg : [kind : {"youtube", "spotify"}, url : {<<"v">>},
                        resp : OembedAnswers],
                 done : {FALSE}, out : {<<>>}]

NextOembed == OembedUrl

SpecOembed == InitOembed /\ [][NextOembed]_vars

\* the oEmbed call of the state answered 200
Oembed200 ==
    /\ call.fn = "oembed_url" /\ call.done
    /\ call.arg.resp.kind = "response" /\ call.arg.resp.status = 200

\* what both statements of C16 say besides the title and the creator: one
\* record, the thumbnail as the only media URL or none, and an empty
\* description, date and tags
OembedShape ==
    LET data == call.arg.resp.data
        row == call.out.records[1]
    IN /\ Len(call.out.records) = 1
       /\ row.id = call.arg.url
       /\ row.media_urls =
             IF "thumbnail_url" \in DOMAIN data /\ data["thumbnail_url"] # <<>>
             THEN <<data["thumbnail_url"]>> ELSE <<>>
       /\ row.description = <<>> /\ row.date = <<>> /\ row.tags = <<>>

\* a text without markup, entities or spaces around it
PlainText(x) ==
    /\ \A i \in 1..Len(x) : x[i] \notin {"<", ">", "&"}
    /\ x # <<>> => x[1] # " " /\ x[Len(x)] # " "

\* C16 as stated: for every oEmbed answer of status 200 the record has the
\* answer's title and author_name as title and creator, the thumbnail as
\* its only media URL (none without thumbnail) and an empty description,
\* date and tags.
Orig_C16 ==
    Oembed200 =>
        /\ OembedShape
        /\ call.out.records[1].title = Get(call.arg.resp.data, "title", <<>>)
        /\ call.out.records[1].creator
             = Get(call.arg.resp.data, "author_name", <<>>)

\* C16 as amended: for every oEmbed answer of status 200 the record has as
\* title and creator the answer's title and author_name with markup
\* removed, entities unescaped and the spaces around them trimmed (the
\* values themselves when they have none of these, "" when absent), the
\* thumbnail as its only media URL (none without thumbnail) and an empty
\* description, date and tags.
Claim_C16 ==
    Oembed200 =>
        LET title == Get(call.arg.resp.data, "title", <<>>)
            author == Get(call.arg.resp.data, "author_name", <<>>)
            row == call.out.records[1]
        IN /\ OembedShape
           /\ row.title = clean_text(title)
           /\ row.creator = clean_text(author)
           /\ title = <<"a", "&", "a", "m", "p", ";", "b">>
                 => row.title = <<"a", "&", "b">>
           /\ PlainText(title) => row.title = title
           /\ PlainText(author) => row.creator = author

\* C16's case: a title with markup and a space at its end, and no thumbnail
Witness_C16 ==
    /\ Oembed200
    /\ Get(call.arg.resp.data, "title", <<>>) = <<"<", "b", ">", "H", "i", " ">>
    /\ call.out.records[1].title = T_Hi
    /\ "thumbnail_url" \notin DOMAIN call.arg.resp.data
    /\ call.out.records[1].media_urls = <<>>

(***************************************************************************)
(* row_to_omeka_json of the publisher, called with any record.             *)
(***************************************************************************)
\* the fixed field-id scheme
DC_ELEMENTS ==
    [c \in {"Title (English)", "Title (Spanish)"} |-> 50]
    @@ [c \in {"Author (English)", "Author (Spanish)"} |-> 39]
    @@ [c \in {"Subjects (English)", "Subjects (Spanish)"} |-> 49]
    @@ [c \in {"Description (English)", "Description (Spanish)"} |-> 41]
    @@ [c \in {"Date"} |-> 40]
    @@ [c \in {"Language (English)", "Language (Spanish)"} |-> 44]
    @@ [c \in {"Publisher (English)", "Publisher (Spanish)"} |-> 45]
    @@ [c \in {"Format (English)", "Format (Spanish)"} |-> 42]

\* one entry of element_texts
Element(element_id, text) ==
    [element |-> [id |-> element_id], text |-> text, html |-> FALSE]

\* a mutant of OmekaMetadata: the value is tested without trimming
RECURSIVE OmekaMetadata_NoStrip(_)
OmekaMetadata_NoStrip(row) ==
    IF row = <<>> THEN <<>>
    ELSE LET col == Head(row).col
             value == Head(row).value
             element_id == IF col \in DOMAIN DC_ELEMENTS
                           THEN DC_ELEMENTS[col] ELSE 0
             rest == OmekaMetadata_NoStrip(Tail(row))
         IN IF value = <<>> THEN rest
            ELSE IF element_id = 0 THEN rest
            ELSE <<Element(element_id, value)>> \o rest

\* the loop of row_to_omeka_json over the cells [col, value] of a row, in
\* the order of the row
RECURSIVE OmekaMetadata(_)
OmekaMetadata(row) ==
    IF row = <<>> THEN <<>>
    ELSE LET col == Head(row).col
             value == Head(row).value
             element_id == IF col \in DOMAIN DC_ELEMENTS
                           THEN DC_ELEMENTS[col] ELSE 0
             rest == OmekaMetadata(Tail(row))
         IN IF Strip(value) = <<>> THEN rest
            ELSE IF element_id = 0 THEN rest
            ELSE <<Element(element_id, value)>> \o rest

\* row_to_omeka_json(row)
row_to_omeka_json(row) ==
    [public |-> TRUE, featured |-> FALSE, element_texts |-> OmekaMetadata(row)]

\* the columns of the rows handed to row_to_omeka_json, in the order of
\* the result of clean_worldcat_data; one of them is not in the scheme
OmekaColumns ==
    <<"OCLC Number", "Title (English)", "Title (Spanish)",
      "Author (English)", "Date">>

\* the values of a cell; NoValue is a column the row does not have
OmekaValues == {NoValue, <<>>, <<" ">>, <<"a">>, <<" ", "a", " ">>}

\* the rows handed to row_to_omeka_json
OmekaRows ==
    { SelectSeq([i \in 1..Len(OmekaColumns) |->
                    [col |-> OmekaColumns[i], value |-> v[i]]],
                LAMBDA c : c.value # NoValue) :
        v \in [1..Len(OmekaColumns) -> OmekaValues] }

\* row_to_omeka_json(row) runs
RowToOmekaJson ==
    /\ call.fn = "row_to_omeka_json" /\ ~call.done
    /\ call' = [call EXCEPT !.done = TRUE, !.out = row_to_omeka_json(call.arg)]
    /\ UNCHANGED CallRest

InitRowToOmeka ==
    /\ now = 0
    /\ _token_cache = [token |-> None, expires_at |-> 0]
    /\ tokcall = NoTokCall
    /\ frames = NoFrames
    /\ op = IdleOp
    /\ raw_file = NoFile
    /\ log_file = NoLog
    /\ inv = [p \in Procs |-> IdleInv]
    /\ hist = NoHist
    /\ tr = NoTranslation
    /\ mp = NoMapping
    /\ poll = IdlePoll
    /\ call \in [fn : {"row_to_omeka_json"}, arg : OmekaRows,
                 done : {FALSE}, out : {<<>>}]

NextRowToOmeka == RowToOmekaJson

SpecRowToOmeka == InitRowToOmeka /\ [][NextRowToOmeka]_vars

\* the value of a cell is not made of spaces only
CellFilled(c) == \E i \in 1..Len(c.value) : c.value[i] # " "

\* the cells of a row that are in the scheme and not empty after trimming
SchemeCells(row) ==
    SelectSeq(row, LAMBDA c : c.col \in DOMAIN DC_ELEMENTS /\ CellFilled(c))

\* the number of elements of a payload with the id n
ElementsWithId(payload, n) ==
    Cardinality({i \in 1..Len(payload.element_texts) :
                    payload.element_texts[i].element.id = n})

\* column col of row is there and is not empty after trimming
Filled(row, col) ==
    \E i \in 1..Len(row) : row[i].col = col /\ CellFilled(row[i])

\* one element per field of the scheme that is not empty after trimming, in
\* the order of the record, with the id of the scheme and the untrimmed
\* value as text, and no other element
OneElementPerField ==
    LET cells == SchemeCells(call.arg)
        out == call.out.element_texts
    IN /\ Len(out) = Len(cells)
       /\ \A i \in 1..Len(out) :
             /\ out[i].element.id = DC_ELEMENTS[cells[i].col]
             /\ out[i].text = cells[i].value
             /\ out[i].html = FALSE

\* C22 as stated: row_to_omeka_json emits one element per record field that
\* is in the fixed field-id scheme and non-empty after trimming, and none
\* for any other field: a record with an empty "Date" produces no element
\* with id 40, and every record with a non-empty "Title (English)" produces
\* exactly one element with id 50.
Orig_C22 ==
    (call.fn = "row_to_omeka_json" /\ call.done) =>
        /\ OneElementPerField
        /\ ~Filled(call.arg, "Date") => ElementsWithId(call.out, 40) = 0
        /\ Filled(call.arg, "Title (English)")
              => ElementsWithId(call.out, 50) = 1

\* C22 as amended: row_to_omeka_json emits one element per record field
\* that is in the fixed field-id scheme and non-empty after trimming, and
\* none for any other field: a record with an empty "Date" produces no
\* element with id 40, and a record produces one element with id 50 for
\* its non-empty "Title (English)" and one more for its non-empty
\* "Title (Spanish)", the scheme giving both fields the id 50.
Claim_C22 ==
    (call.fn = "row_to_omeka_json" /\ call.done) =>
        /\ OneElementPerField
        /\ call.out.public /\ ~call.out.featured
        /\ ~Filled(call.arg, "Date") => ElementsWithId(call.out, 40) = 0
        /\ ElementsWithId(call.out, 50)
             = (IF Filled(call.arg, "Title (English)") THEN 1 ELSE 0)
               + (IF Filled(call.arg, "Title (Spanish)") THEN 1 ELSE 0)

\* C22's case: a record with both titles, a date of spaces only and a
\* filled column that is not in the scheme
Witness_C22 ==
    /\ call.fn = "row_to_omeka_json" /\ call.done
    /\ Len(call.arg) = Len(OmekaColumns)
    /\ Filled(call.arg, "OCLC Number")
    /\ Filled(call.arg, "Title (English)")
    /\ Filled(call.arg, "Title (Spanish)")
    /\ ~Filled(call.arg, "Author (English)")
    /\ call.arg[5].value = <<" ">>
    /\ Len(call.out.element_texts) = 2
    /\ ElementsWithId(call.out, 50) = 2

(***************************************************************************)
(* upload_item_to_omeka, and the upload loop of Step 2 of the main page    *)
(* over the records of the fetched table.                                  *)
(***************************************************************************)
MaxUpload == 3      \* records of the table that is uploaded

\* a status code, and the None that stands for it after an exception
StatusCode(n) == [t |-> "int", v |-> n]
NoStatus == [t |-> "none", v |-> 0]

T_Created == <<"o", "k">>
T_Refused == <<"n", "o">>
T_Timeout == <<"t", "/", "o">>

\* how the POST of one record can end
UploadResponses ==
    {[kind |-> "response", status |-> 201, text |-> T_Created],
     [kind |-> "response", status |-> 200, text |-> T_Created],
     [kind |-> "response", status |-> 403, text |-> T_Refused],
     [kind |-> "exception", error |-> T_Timeout]}

\* upload_item_to_omeka(row), the POST ending as resp: the payload that is
\* sent and the pair that is returned
upload_item_to_omeka(row, resp) ==
    LET payload == row_to_omeka_json(row) IN
    IF resp.kind = "exception"
    THEN [payload |-> payload, status |-> NoStatus, msg |-> resp.error]
    ELSE [payload |-> payload, status |-> StatusCode(resp.status),
          msg |-> resp.text]

\* row.get("Title (English)") or f"Item {i + 1}", i the index of the row
\* counted from 0
UploadTitle(row, i) ==
    LET cells == SelectSeq(row, LAMBDA c : c.col = "Title (English)")
        title == IF cells = <<>> THEN <<>> ELSE cells[1].value
    IN IF Truthy(title) THEN title ELSE <<"Item", i + 1>>

\* the upload loop before its first record
UploadLoop(rows) ==
    [fn |-> "upload_loop", pc |-> "loop", rows |-> rows, i |-> 1,
     success |-> <<>>, failed |-> <<>>, calls |-> <<>>]

\* a mutant of UploadStep: an exception of the POST ends the loop
UploadStep_StopOnError(o, resp) ==
    LET row == o.rows[o.i]
        got == upload_item_to_omeka(row, resp)
        title == UploadTitle(row, o.i - 1)
        o1 == [o EXCEPT !.i = @ + 1, !.calls = Append(@, got)]
    IN IF got.status = NoStatus
       THEN [o1 EXCEPT !.pc = "done"]
       ELSE IF got.status = StatusCode(201)
       THEN [o1 EXCEPT !.success = Append(@, title)]
       ELSE [o1 EXCEPT !.failed = Append(@, [title |-> title,
                                               status |-> got.status])]

\* one iteration of the upload loop, the POST ending as resp
UploadStep(o, resp) ==
    LET row == o.rows[o.i]
        got == upload_item_to_omeka(row, resp)
        title == UploadTitle(row, o.i - 1)
        o1 == [o EXCEPT !.i = @ + 1, !.calls = Append(@, got)]
    IN IF got.status = StatusCode(201)
       THEN [o1 EXCEPT !.success = Append(@, title)]
       ELSE [o1 EXCEPT !.failed = Append(@, [title |-> title,
                                               status |-> got.status])]

\* the records of the table: with a title and a date, and without a title
UploadRows ==
    {<<[col |-> "OCLC Number", value |-> <<"1">>],
       [col |-> "Title (English)", value |-> <<"a">>],
       [col |-> "Date", value |-> <<"2">>]>>,
     <<[col |-> "OCLC Number", value |-> <<"2">>],
       [col |-> "Title (English)", value |-> <<>>],
       [col |-> "Date", value |-> <<>>]>>}

\* the next record of the table is uploaded
UploadNext ==
    /\ call.fn = "upload_loop" /\ call.pc = "loop"
    /\ call.i <= Len(call.rows)
    /\ \E resp \in UploadResponses : call' = UploadStep(call, resp)
    /\ UNCHANGED CallRest

\* the loop is over: the tally is shown
UploadFinish ==
    /\ call.fn = "upload_loop" /\ call.pc = "loop"
    /\ call.i > Len(call.rows)
    /\ call' = [call EXCEPT !.pc = "done"]
    /\ UNCHANGED CallRest

InitUpload ==
    /\ now = 0
    /\ _token_cache = [token |-> None, expires_at |-> 0]
    /\ tokcall = NoTokCall
    /\ frames = NoFrames
    /\ op = IdleOp
    /\ raw_file = NoFile
    /\ log_file = NoLog
    /\ inv = [p \in Procs |-> IdleInv]
    /\ hist = NoHist
    /\ tr = NoTranslation
    /\ mp = NoMapping
    /\ poll = IdlePoll
    /\ call \in {UploadLoop(rows) :
                    rows \in UNION {[1..n -> UploadRows] : n \in 1..MaxUpload}}

NextUpload == UploadNext \/ UploadFinish

SpecUpload == InitUpload /\ [][NextUpload]_vars

\* C23: upload_item_to_omeka never raises: it returns (status_code,
\* response_text) when the create call completes and (None, error_string)
\* on a transport exception; consequently the upload loop attempts every
\* record, and after it finishes the success count plus the failure count
\* equals the number of records, a record counting as success iff its
\* status is 201.
Claim_C23 ==
    call.fn = "upload_loop" =>
        /\ Len(call.calls) = call.i - 1
        /\ Len(call.success) + Len(call.failed) = Len(call.calls)
        /\ Len(call.success)
             = Cardinality({k \in 1..Len(call.calls) :
                               call.calls[k].status.t = "int"
                               /\ call.calls[k].status.v = 201})
        /\ \A k \in 1..Len(call.calls) :
              /\ call.calls[k].payload = row_to_omeka_json(call.rows[k])
              /\ call.calls[k].status.t \in {"int", "none"}
              /\ call.calls[k].status.t = "none"
                    => call.calls[k].msg = T_Timeout
        /\ call.pc = "done" =>
              /\ Len(call.calls) = Len(call.rows)
              /\ Len(call.success) + Len(call.failed) = Len(call.rows)

\* C23's case: of three records the first was created, the POST of the
\* second raised and the third was answered 200; the loop finished
Witness_C23 ==
    /\ call.fn = "upload_loop" /\ call.pc = "done"
    /\ Len(call.rows) = MaxUpload
    /\ call.calls[1].status = StatusCode(201)
    /\ call.calls[2].status = NoStatus
    /\ call.calls[3].status = StatusCode(200)
    /\ Len(call.success) = 1 /\ Len(call.failed) = 2

(***************************************************************************)
(* extract_semantic_keywords, called with any title and description, the   *)
(* phrase-extraction model answering with any ranked list or raising.      *)
(***************************************************************************)
TopN == 8           \* top_n of the call of the phrase-extraction model
MaxRanked == 9      \* phrases the model returns for a text
MaxShort == 3       \* length of the lists drawn from the sample phrases

\* str.upper() on one character
UpperChar(c) ==
    IF \E i \in 1..Len(LowerChars) : LowerChars[i] = c
    THEN UpperChars[CHOOSE i \in 1..Len(LowerChars) : LowerChars[i] = c]
    ELSE c

\* c is a letter
IsCased(c) == LowerChar(c) # c \/ UpperChar(c) # c

\* str.title(): a letter after a letter is lower-cased, any other letter is
\* upper-cased
Title(s) ==
    [i \in 1..Len(s) |->
        IF i > 1 /\ IsCased(s[i - 1]) THEN LowerChar(s[i]) ELSE UpperChar(s[i])]

\* a mutant of FromKeys: nothing is removed
FromKeys_KeepAll(q) == q \o <<>>

\* list(dict.fromkeys(q)): the first occurrence of every entry, in order
RECURSIVE FromKeys(_)
FromKeys(q) ==
    IF q = <<>> THEN <<>>
    ELSE LET front == FromKeys(SubSeq(q, 1, Len(q) - 1))
             last == q[Len(q)]
         IN IF \E i \in 1..Len(front) : front[i] = last
            THEN front ELSE Append(front, last)

\* [s.title().strip() for s in subjects if len(s) > 2]
CleanPhrases(subjects) ==
    LET long == SelectSeq(subjects, LAMBDA x : Len(x) > 2)
    IN [i \in 1..Len(long) |-> Strip(Title(long[i]))]

\* extract_semantic_keywords(title, description), the call of the model
\* (lines 20-25) answering m: the list returned, whether the model was
\* invoked, with which text and which top_n.  m.ranked is the list the call
\* returns, and every phrase of it is taken (line 27): the function asks for
\* top_n phrases and never cuts the answer itself.
extract_semantic_keywords(title, description, m) ==
    LET text == Strip(title \o <<".", " ">> \o description) IN
    IF ~Truthy(text)
    THEN [result |-> <<>>, invoked |-> FALSE, text |-> text, top_n |-> TopN]
    ELSE IF m.kind = "raise"
    THEN [result |-> <<>>, invoked |-> TRUE, text |-> text, top_n |-> TopN]
    ELSE [result |-> FromKeys(CleanPhrases(m.ranked)),
          invoked |-> TRUE, text |-> text, top_n |-> TopN]

\* sample phrases: too short, plain, the same in capitals, three characters
\* of which one is a space, and two words
SamplePhrases ==
    {<<"a", "b">>, <<"a", "b", "c">>, <<"A", "B", "C">>, <<"a", "b", " ">>,
     <<"b", " ", "c", "d">>}

\* MaxRanked phrases that differ
DistinctPhrases ==
    [i \in 1..MaxRanked |-> <<"k", "w", LowerChars[i]>>]

\* the answers of the model: it raises, or it returns a short list of
\* sample phrases, or the first n of the different phrases, one more than
\* it was asked for included
ModelAnswers ==
    {[kind |-> "raise", ranked |-> <<>>]}
    \cup {[kind |-> "ranked", ranked |-> q] :
            q \in UNION {[1..n -> SamplePhrases] : n \in 0..MaxShort}}
    \cup {[kind |-> "ranked", ranked |-> SubSeq(DistinctPhrases, 1, n)] :
            n \in (MaxShort + 1)..MaxRanked}

\* the titles and the descriptions of a call
KeywordTitles == {<<>>, <<" ">>, <<"a", "b", "c">>}
KeywordDescriptions == {<<>>, <<"d", "e">>}

\* extract_semantic_keywords(title, description) runs
ExtractKeywords ==
    /\ call.fn = "extract_semantic_keywords" /\ ~call.done
    /\ call' = [call EXCEPT !.done = TRUE,
                            !.out = extract_semantic_keywords(
                                        call.arg.title, call.arg.description,
                                        call.arg.model)]
    /\ UNCHANGED CallRest

InitKeywords ==
    /\ now = 0
    /\ _token_cache = [token |-> None, expires_at |-> 0]
    /\ tokcall = NoTokCall
    /\ frames = NoFrames
    /\ op = IdleOp
    /\ raw_file = NoFile
    /\ log_file = NoLog
    /\ inv = [p \in Procs |-> IdleInv]
    /\ hist = NoHist
    /\ tr = NoTranslation
    /\ mp = NoMapping
    /\ poll = IdlePoll
    /\ call \in [fn : {"extract_semantic_keywords"},
                 arg : [title : KeywordTitles,
                        description : KeywordDescriptions,
                        model : ModelAnswers],
                 done : {FALSE}, out : {<<>>}]

NextKeywords == ExtractKeywords

SpecKeywords == InitKeywords /\ [][NextKeywords]_vars

\* C24: for every call with an empty title and an empty description,
\* extract_semantic_keywords returns the empty sequence and skips the
\* extraction step entirely (the phrase-extraction model is not invoked).
Orig_C24 ==
    (call.fn = "extract_semantic_keywords" /\ call.done
        /\ call.arg.title = <<>> /\ call.arg.description = <<>>) =>
        /\ call.out.result = <<>>
        /\ ~call.out.invoked

\* the text the model is given is never empty: the full stop between the
\* title and the description stays
TextNeverEmpty ==
    (call.fn = "extract_semantic_keywords" /\ call.done) =>
        /\ call.out.invoked
        /\ call.out.text # <<>> /\ call.out.text[1] # " "
        /\ (call.arg.title = <<>> /\ call.arg.description = <<>>)
              => call.out.text = <<".">>

\* the phrases of the model's answer, as returned and title-cased and
\* trimmed
Listed(m) ==
    [i \in 1..Len(m.ranked) |->
        [raw |-> m.ranked[i], clean |-> Strip(Title(m.ranked[i]))]]

\* result is without duplicate and in the order in which its entries are
\* first seen in the sequence of phrases q
FirstSeenOrder(result, q) ==
    LET first(x) == CHOOSE i \in 1..Len(q) :
                       q[i] = x /\ \A j \in 1..(i - 1) : q[j] # x
    IN /\ \A i, j \in 1..Len(result) : i # j => result[i] # result[j]
       /\ \A i \in 1..Len(result) : \E k \in 1..Len(q) : q[k] = result[i]
       /\ \A i, j \in 1..Len(result) :
             i < j => first(result[i]) < first(result[j])

\* C25 as stated: for every ranked phrase list the model returns, the
\* output of extract_semantic_keywords has at most 8 entries, contains no
\* duplicate, lists the title-cased trimmed phrases in first-seen order,
\* and contains no phrase of 2 characters or fewer; if the model raises,
\* the output is the empty sequence and no error propagates.
Orig_C25 ==
    (call.fn = "extract_semantic_keywords" /\ call.done) =>
        LET out == call.out.result
            listed == Listed(call.arg.model)
            clean == [i \in 1..Len(listed) |-> listed[i].clean]
        IN IF call.arg.model.kind = "raise" THEN out = <<>>
           ELSE /\ Len(out) <= 8
                /\ FirstSeenOrder(out, clean)
                /\ \A i \in 1..Len(out) : Len(out[i]) > 2
                /\ \A i \in 1..Len(clean) :
                      Len(clean[i]) > 2 => \E k \in 1..Len(out) :
                                              out[k] = clean[i]

\* C25 as amended: for every phrase list the model returns, the output of
\* extract_semantic_keywords has no more entries than that list, hence at
\* most 8 when the model returns no more than the 8 phrases it is asked
\* for (top_n=8 is passed, the answer is never cut), contains no duplicate,
\* and lists in first-seen order the title-cased trimmed form of the
\* phrases that were longer than 2 characters before trimming, so that an
\* entry can be 2 characters or fewer; if the model raises, the output is
\* the empty sequence and no error propagates.
Claim_C25 ==
    (call.fn = "extract_semantic_keywords" /\ call.done) =>
        LET out == call.out.result
            kept == SelectSeq(Listed(call.arg.model),
                              LAMBDA p : Len(p.raw) > 2)
            clean == [i \in 1..Len(kept) |-> kept[i].clean]
        IN IF call.arg.model.kind = "raise" THEN out = <<>>
           ELSE /\ call.out.top_n = 8
                /\ Len(out) <= Len(call.arg.model.ranked)
                /\ Len(call.arg.model.ranked) <= call.out.top_n
                      => Len(out) <= 8
                /\ FirstSeenOrder(out, clean)
                /\ \A i \in 1..Len(clean) :
                      \E k \in 1..Len(out) : out[k] = clean[i]

\* C25's case: the model ranked a phrase twice, in small letters and in
\* capitals, and a phrase of three characters that ends with a space
Witness_C25 ==
    /\ call.fn = "extract_semantic_keywords" /\ call.done
    /\ call.arg.model.kind = "ranked"
    /\ call.arg.model.ranked
         = <<<<"a", "b", "c">>, <<"a", "b", " ">>, <<"A", "B", "C">>>>
    /\ call.out.result = <<<<"A", "b", "c">>, <<"A", "b">>>>

\* the model returned one phrase more than it was asked for: all of them
\* are listed
NineOfNine ==
    /\ call.fn = "extract_semantic_keywords" /\ call.done
    /\ Len(call.arg.model.ranked) = TopN + 1
    /\ Len(call.out.result) = TopN + 1

(***************************************************************************)
(* The YouTube tab of the aggregator page under the page-rerun model: an   *)
(* edit of the text area or a click on a button runs the script again from *)
(* the top; a button reads True only in the run its own click triggered;   *)
(* the text area keeps its content from run to run.                        *)
(***************************************************************************)
\* the for loop of the tab over the lines of the text area, the request for
\* line i ending as answers[i]
RECURSIVE OembedLoop(_, _)
OembedLoop(o, answers) ==
    IF o.idx > Len(o.inputs) THEN o
    ELSE OembedLoop(OembedRowStep(o, answers[o.idx], 0), answers)

\* save_outputs(rows, source_name) run to its end at time t on the files
\* of st
save_outputs(st, rows, source_name, t) ==
    [raw_file |-> FileOf(Merged(LoadExisting(st.raw_file), rows)),
     log_file |-> AppendLog(st.log_file, ~st.log_file.exists,
                            LogEntry(source_name, rows, t)),
     saved |-> Append(st.saved, rows)]

\* one run of the script through the YouTube tab: click is the button
\* whose click triggered the run ("none" for an edit of the text area),
\* st the files and the save_outputs calls made so far.  The Save button
\* is created, and read, inside the branch of the Fetch button.
YouTubeTabRun(st, click, urls_text, answers) ==
    LET fetch_pressed == click = "fetch"
        loop == OembedLoop([IdleOp EXCEPT !.kind = "youtube", !.pc = "loop",
                                          !.inputs = StrippedNonEmpty(urls_text)],
                           answers)
        batch_rows == IF fetch_pressed THEN loop.records ELSE <<>>
        save_shown == fetch_pressed /\ Truthy(batch_rows)
        save_pressed == save_shown /\ click = "save"
        after == IF save_pressed
                 THEN save_outputs(st, batch_rows, "youtube", 0)
                 ELSE st
    IN [page |-> [fn |-> "youtube_tab", urls_text |-> urls_text,
                  click |-> click, batch_rows |-> batch_rows,
                  save_shown |-> save_shown, saved |-> after.saved],
        raw_file |-> after.raw_file, log_file |-> after.log_file]

\* the page as the run that loads it leaves it
FirstRun ==
    YouTubeTabRun([raw_file |-> NoFile, log_file |-> NoLog, saved |-> <<>>],
                  "none", <<>>, <<>>).page

\* the files and the save_outputs calls before a run
Before == [raw_file |-> raw_file, log_file |-> log_file, saved |-> call.saved]

\* the user edits the text area: the script runs with no button pressed
EditUrls ==
    \E lines \in SeqsUpTo(Cells, MaxRows) :
        LET r == YouTubeTabRun(Before, "none", lines, <<>>) IN
        /\ call.fn = "youtube_tab" /\ lines # call.urls_text
        /\ call' = r.page /\ raw_file' = r.raw_file /\ log_file' = r.log_file
        /\ UNCHANGED <<FetchVars, inv, hist, tr, mp, poll>>

\* the user clicks "Fetch YouTube Metadata"
ClickFetch ==
    \E answers \in [1..Len(StrippedNonEmpty(call.urls_text))
                      -> OembedResponses] :
        LET r == YouTubeTabRun(Before, "fetch", call.urls_text, answers) IN
        /\ call.fn = "youtube_tab"
        /\ call' = r.page /\ raw_file' = r.raw_file /\ log_file' = r.log_file
        /\ UNCHANGED <<FetchVars, inv, hist, tr, mp, poll>>

\* the user clicks "Save YouTube batch", which the last run has shown
ClickSave ==
    LET r == YouTubeTabRun(Before, "save", call.urls_text, <<>>) IN
    /\ call.fn = "youtube_tab" /\ call.save_shown
    /\ call' = r.page /\ raw_file' = r.raw_file /\ log_file' = r.log_file
    /\ UNCHANGED <<FetchVars, inv, hist, tr, mp, poll>>

InitRerun ==
    /\ now = 0
    /\ _token_cache = [token |-> None, expires_at |-> 0]
    /\ tokcall = NoTokCall
    /\ frames = NoFrames
    /\ op = IdleOp
    /\ raw_file \in InitialFiles
    /\ log_file = NoLog
    /\ inv = [p \in Procs |-> IdleInv]
    /\ hist = NoHist
    /\ tr = NoTranslation
    /\ mp = NoMapping
    /\ poll = IdlePoll
    /\ call = FirstRun

NextRerun == EditUrls \/ ClickFetch \/ ClickSave

\* a run that is triggered comes to its end (every request has a timeout),
\* and the page can always be run again
SpecRerun == InitRerun /\ [][NextRerun]_vars /\ WF_vars(NextRerun)

\* C30: in the aggregator page, under the page-rerun model, clicking a
\* "Save ... batch" button after a successful fetch eventually calls
\* save_outputs with the fetched records, so that they are appended to the
\* persisted collection.
Orig_C30 == (call.click = "save") ~> (call.saved # <<>>)

\* what does hold: no run of the tab calls save_outputs, and the collection
\* and the log stay as they were
SaveNeverCalled ==
    call.fn = "youtube_tab" =>
        /\ call.saved = <<>>
        /\ raw_file \in InitialFiles /\ log_file = NoLog
        /\ call.click = "save" => call.batch_rows = <<>> /\ ~call.save_shown

\* the run triggered by a click on Save has ended: nothing is on screen
\* and nothing was saved
SaveClickLost ==
    /\ call.fn = "youtube_tab" /\ call.click = "save"
    /\ call.batch_rows = <<>> /\ call.saved = <<>>
    /\ raw_file = NoFile

====
